---- MODULE Spec2Model ----
(***************************************************************************)
(* A model of mozblocklist: the classification of candidate guids against *)
(* the loaded blocklist (readGuidData), the guid string codec              *)
(* (createGuidStrings / expandGuidRegex), the staging collection's state   *)
(* guard of the kinto client, the interactive check, create, review and    *)
(* sign workflows, the bug id from the prompt to the entry's link and      *)
(* back, and httpRequest with its 401 handling.                            *)
(*                                                                         *)
(* Strings whose characters matter are sequences of one-character strings. *)
(***************************************************************************)
EXTENDS Integers, Sequences, FiniteSets, TLC

VARIABLES
  \* ---- readGuidData: its arguments and its result
  lines,      \* the raw candidate lines handed to readGuidData
  guids,      \* the exact-guid Map of loadBlocklist: guid -> entry
  regexes,    \* the regex Map of loadBlocklist, in insertion order
  existing,   \* result Map guid -> entry, in insertion order
  newguids,   \* result Set, in insertion order
  warnings,   \* what console.error received
  rpc,        \* "input" before the call, "done" after it
  \* ---- the guid string codec: arguments and results
  glist,      \* the guids handed to createGuidStrings
  blocks,     \* what createGuidStrings returned
  expandArg,  \* the string handed to expandGuidRegex
  expanded,   \* what expandGuidRegex returned
  kpc         \* "input", "compiled" after createGuidStrings, "expanded" after expandGuidRegex

classifyVars == <<lines, guids, regexes, existing, newguids, warnings, rpc>>

codecVars == <<glist, blocks, expandArg, expanded, kpc>>

VARIABLES
  \* ---- the remote services
  status,        \* the state label of the staging/addons collection
  statusWrites,  \* the setData({ status }) requests this tool sent, in order
  records,       \* the createRecord requests this tool sent to staging/addons
  bugs,          \* the create/update requests this tool sent to the bug tracker
  amo,           \* the requests this tool sent to the add-on site and to the user sheet
  otherChanges,  \* how often somebody else changed the state label
  \* ---- the tool
  wf,            \* the running command: its arguments, answers and position
  call           \* the kinto client method in progress

remoteVars == <<status, statusWrites, records, bugs, amo, otherChanges>>

toolVars == <<wf, call>>

vars == <<classifyVars, codecVars, remoteVars, toolVars>>

-----------------------------------------------------------------------------
(* Bounds of the model *)

MaxLines == 3
MaxRegexes == 2
MaxGuids == 3
MaxIds == 3
MaxOtherChanges == 1
MaxOps == 3
MaxBugIdLen == 3
MaxRequests == 3

-----------------------------------------------------------------------------
(* Generic helpers for sequences *)

Range(s) == {s[i] : i \in 1..Len(s)}

SeqsUpTo(S, n) == UNION {[1..k -> S] : k \in 0..n}

\* Set.prototype.add / the order of a JS Set: first insertion decides the place
SetAdd(s, x) == IF x \in Range(s) THEN s ELSE Append(s, x)

\* Map.prototype.has / get / set on a Map kept as a sequence of [key, value]
MapHas(m, k) == \E i \in 1..Len(m) : m[i].key = k

MapGet(m, k) == m[CHOOSE i \in 1..Len(m) : m[i].key = k].value

MapSet(m, k, v) ==
  IF MapHas(m, k)
    THEN [i \in 1..Len(m) |-> IF m[i].key = k THEN [key |-> k, value |-> v] ELSE m[i]]
    ELSE Append(m, [key |-> k, value |-> v])

MapKeys(m) == {m[i].key : i \in 1..Len(m)}

-----------------------------------------------------------------------------
(* Strings *)

COMMENT_CHAR == "#"

\* the characters String.prototype.trim removes that the inputs here contain
IsWhitespace(c) == c \in {" ", "\t"}

RECURSIVE trimStart(_)
trimStart(s) ==
  IF s # <<>> /\ IsWhitespace(Head(s)) THEN trimStart(Tail(s)) ELSE s

RECURSIVE trimEnd(_)
trimEnd(s) ==
  IF s # <<>> /\ IsWhitespace(s[Len(s)]) THEN trimEnd(SubSeq(s, 1, Len(s) - 1)) ELSE s

trim(s) == trimEnd(trimStart(s))

\* str.startsWith(prefix)
startsWith(s, p) == Len(s) >= Len(p) /\ SubSeq(s, 1, Len(p)) = p

-----------------------------------------------------------------------------
(* readGuidData *)

\* guid.match(re): a RegExp is kept with the set of candidate strings it matches
match(guid, re) == guid \in re.accepts

\* [...regexes.keys()].filter(re => guid.match(re)): indexes in insertion order
RECURSIVE filterMatches(_, _, _)
filterMatches(res, guid, i) ==
  IF i > Len(res) THEN <<>>
  ELSE (IF match(guid, res[i].re) THEN <<i>> ELSE <<>>) \o filterMatches(res, guid, i + 1)

\* (variant: the comment test on the untrimmed line)
skipLineUntrimmed(line) ==
  line = <<>> \/ startsWith(line, <<COMMENT_CHAR>>)

\* the line is skipped: empty after trim, or a comment
skipLine(line) ==
  LET guid == trim(line) IN guid = <<>> \/ startsWith(guid, <<COMMENT_CHAR>>)

\* (variant: a regex match does not keep the guid out of newguids)
readGuidLineFallthrough(acc, line, gs, res) ==
  LET guid == trim(line)
      regexmatches == filterMatches(res, guid, 1)
  IN IF skipLine(line) THEN acc
     ELSE IF MapHas(gs, guid) THEN
       [acc EXCEPT !.existing = MapSet(@, guid, MapGet(gs, guid))]
     ELSE IF Len(regexmatches) > 0 THEN
       [acc EXCEPT !.existing = MapSet(@, guid, res[regexmatches[1]].entry),
                   !.newguids = SetAdd(@, guid)]
     ELSE [acc EXCEPT !.newguids = SetAdd(@, guid)]

\* (variant: the first revision's loop, which tests the regexes only when no
\*  exact guid matched and so never reports a single/regex overlap)
readGuidLineFirstRevision(acc, line, gs, res) ==
  LET guid == trim(line)
      regexmatches == filterMatches(res, guid, 1)
  IN IF skipLine(line) THEN acc
     ELSE IF MapHas(gs, guid) THEN
       [acc EXCEPT !.existing = MapSet(@, guid, MapGet(gs, guid))]
     ELSE IF Len(regexmatches) > 0 THEN
       [acc EXCEPT
          !.warnings = IF Len(regexmatches) > 1
                         THEN Append(@, [kind |-> "more than one regex", guid |-> guid,
                                         regexmatches |-> regexmatches])
                         ELSE @,
          !.existing = MapSet(@, guid, res[regexmatches[1]].entry)]
     ELSE [acc EXCEPT !.newguids = SetAdd(@, guid)]

\* (variant: the last matching regex decides the entry)
readGuidLineLastMatch(acc, line, gs, res) ==
  LET guid == trim(line)
      regexmatches == filterMatches(res, guid, 1)
  IN IF skipLine(line) THEN acc
     ELSE IF MapHas(gs, guid) THEN
       [acc EXCEPT
          !.warnings = IF Len(regexmatches) > 0
                         THEN Append(@, [kind |-> "single and regex", guid |-> guid,
                                         regexmatches |-> regexmatches])
                         ELSE @,
          !.existing = MapSet(@, guid, MapGet(gs, guid))]
     ELSE IF Len(regexmatches) > 0 THEN
       [acc EXCEPT
          !.warnings = IF Len(regexmatches) > 1
                         THEN Append(@, [kind |-> "more than one regex", guid |-> guid,
                                         regexmatches |-> regexmatches])
                         ELSE @,
          !.existing = MapSet(@, guid, res[regexmatches[Len(regexmatches)]].entry)]
     ELSE [acc EXCEPT !.newguids = SetAdd(@, guid)]

\* one iteration of the loop over the lines; acc = [existing, newguids, warnings]
readGuidLine(acc, line, gs, res) ==
  LET guid == trim(line)
      regexmatches == filterMatches(res, guid, 1)
  IN IF skipLine(line) THEN acc
     ELSE IF MapHas(gs, guid) THEN
       [acc EXCEPT
          !.warnings = IF Len(regexmatches) > 0
                         THEN Append(@, [kind |-> "single and regex", guid |-> guid,
                                         regexmatches |-> regexmatches])
                         ELSE @,
          !.existing = MapSet(@, guid, MapGet(gs, guid))]
     ELSE IF Len(regexmatches) > 0 THEN
       [acc EXCEPT
          !.warnings = IF Len(regexmatches) > 1
                         THEN Append(@, [kind |-> "more than one regex", guid |-> guid,
                                         regexmatches |-> regexmatches])
                         ELSE @,
          !.existing = MapSet(@, guid, res[regexmatches[1]].entry)]
     ELSE [acc EXCEPT !.newguids = SetAdd(@, guid)]

RECURSIVE readGuidLoop(_, _, _, _, _)
readGuidLoop(acc, ls, i, gs, res) ==
  IF i > Len(ls) THEN acc
  ELSE readGuidLoop(readGuidLine(acc, ls[i], gs, res), ls, i + 1, gs, res)

readGuidData(ls, gs, res) ==
  readGuidLoop([existing |-> <<>>, newguids |-> <<>>, warnings |-> <<>>], ls, 1, gs, res)

-----------------------------------------------------------------------------
(* BlocklistKintoClient.loadBlocklist *)

\* new RegExp(source) throws a SyntaxError for a source whose groups or
\* character classes are not closed: at every place the parentheses opened so
\* far are at least the ones closed, at the end they are as many, and so for
\* the brackets (the sources at hand have no escapes and no parens in classes)
Count(str, c, n) == Cardinality({i \in 1..n : str[i] = c})

RegExpThrows(source) ==
  \/ \E n \in 1..Len(source) : Count(source, ")", n) > Count(source, "(", n)
  \/ Count(source, ")", Len(source)) # Count(source, "(", Len(source))
  \/ Count(source, "]", Len(source)) # Count(source, "[", Len(source))

\* the strings the candidates at hand are, and what each source at hand matches
\* of them, as String.prototype.match finds it
Candidates == {<<"a">>, <<"b">>, <<"c", "#">>}

RegExpAccepts(source) ==
  CASE source = <<"^", "a", "$">> -> {<<"a">>}
    [] source = <<"^", "[", "a", "b", "]", "$">> -> {<<"a">>, <<"b">>}
    [] source = <<"#">> -> {<<"c", "#">>}
    [] OTHER -> {}

\* new RegExp(source), for a source that compiles
RegExp(source) == [source |-> source, accepts |-> RegExpAccepts(source)]

\* the loop of loadBlocklist over addons.data; acc = [threw, guids, regexes];
\* an exception of new RegExp leaves the loop and the method
RECURSIVE loadLoop(_, _, _)
loadLoop(acc, data, i) ==
  IF i > Len(data) THEN acc
  ELSE LET entry == data[i]
           first == IF entry.guid = <<>> THEN "" ELSE entry.guid[1]
           source == IF first = "/" THEN SubSeq(entry.guid, 2, Len(entry.guid) - 1)
                     ELSE entry.guid
       IN IF first \in {"/", "^"}
            THEN IF RegExpThrows(source)
                   THEN [acc EXCEPT !.threw = TRUE]
                   ELSE loadLoop([acc EXCEPT !.regexes =
                                    Append(@, [re |-> RegExp(source), entry |-> entry])],
                                 data, i + 1)
            ELSE loadLoop([acc EXCEPT !.guids = MapSet(@, entry.guid, entry)],
                          data, i + 1)

loadBlocklist(data) ==
  loadLoop([threw |-> FALSE, guids |-> <<>>, regexes |-> <<>>], data, 1)

-----------------------------------------------------------------------------
(* utils: the guid string codec *)

REGEX_BLOCK_MAXLEN == 4250
REGEX_BLOCK_START == <<"/", "^", "(", "(">>
REGEX_BLOCK_DELIM == <<")", "|", "(">>
REGEX_BLOCK_END == <<")", ")", "$", "/">>

\* the characters of the class [\\$^*+.?(){}|[\]] in regexEscape
EscapedChars == {"\\", "$", "^", "*", "+", ".", "?", "(", ")", "{", "}", "|", "[", "]"}

\* str.replace(/[\\$^*+.?(){}|[\]]/g, "\\$&"): every character of the class gets
\* a backslash in front, the others stay; a string without a match is returned
\* as it is, the others are evaluated by halves, which gives the same string as
\* the left-to-right replacement
RECURSIVE regexEscape(_)
regexEscape(str) ==
  IF \A i \in 1..Len(str) : str[i] \notin EscapedChars THEN str
  ELSE IF Len(str) = 1
    THEN (IF str[1] \in EscapedChars THEN <<"\\", str[1]>> ELSE str)
    ELSE LET h == Len(str) \div 2 IN
           regexEscape(SubSeq(str, 1, h)) \o regexEscape(SubSeq(str, h + 1, Len(str)))

\* Array.prototype.join
RECURSIVE join(_, _)
join(parts, delim) ==
  IF Len(parts) = 0 THEN <<>>
  ELSE IF Len(parts) = 1 THEN parts[1]
  ELSE parts[1] \o delim \o join(Tail(parts), delim)

\* (variant: the current block is never closed)
RECURSIVE packGuidsNeverCloses(_, _, _)
packGuidsNeverCloses(st, gs, i) ==
  IF i > Len(gs) THEN st
  ELSE LET escaped == regexEscape(gs[i])
           overhead == Len(REGEX_BLOCK_DELIM)
           curlen == st.curlen + Len(escaped) + overhead
       IN packGuidsNeverCloses([blocks |-> st.blocks,
                                current |-> Append(st.current, escaped),
                                curlen |-> curlen], gs, i + 1)

\* (variant: the guid that no longer fits is left out of the new block)
RECURSIVE packGuidsDropsOverflow(_, _, _)
packGuidsDropsOverflow(st, gs, i) ==
  IF i > Len(gs) THEN st
  ELSE LET escaped == regexEscape(gs[i])
           overhead == Len(REGEX_BLOCK_DELIM)
           curlen == st.curlen + Len(escaped) + overhead
       IN IF curlen > REGEX_BLOCK_MAXLEN
            THEN packGuidsDropsOverflow([blocks |-> Append(st.blocks, st.current),
                                         current |-> <<>>,
                                         curlen |-> 0], gs, i + 1)
            ELSE packGuidsDropsOverflow([blocks |-> st.blocks,
                                         current |-> Append(st.current, escaped),
                                         curlen |-> curlen], gs, i + 1)

\* the loop of createGuidStrings; st = [blocks, current, curlen]
RECURSIVE packGuids(_, _, _)
packGuids(st, gs, i) ==
  IF i > Len(gs) THEN st
  ELSE LET escaped == regexEscape(gs[i])
           overhead == Len(REGEX_BLOCK_DELIM)
           curlen == st.curlen + Len(escaped) + overhead
       IN IF curlen > REGEX_BLOCK_MAXLEN
            THEN packGuids([blocks |-> Append(st.blocks, st.current),
                            current |-> <<escaped>>,
                            curlen |-> Len(escaped) + overhead], gs, i + 1)
            ELSE packGuids([blocks |-> st.blocks,
                            current |-> Append(st.current, escaped),
                            curlen |-> curlen], gs, i + 1)

wrapBlock(block) == REGEX_BLOCK_START \o join(block, REGEX_BLOCK_DELIM) \o REGEX_BLOCK_END

\* (variant: a single guid is wrapped like a list)
createGuidStringsAlwaysWraps(gs) ==
  LET st == packGuids([blocks |-> <<>>, current |-> <<>>, curlen |-> 0], gs, 1)
      all == Append(st.blocks, st.current)
  IN [b \in 1..Len(all) |-> wrapBlock(all[b])]

createGuidStrings(gs) ==
  IF Len(gs) > 1
    THEN LET st == packGuids([blocks |-> <<>>, current |-> <<>>, curlen |-> 0], gs, 1)
             all == Append(st.blocks, st.current)
         IN [b \in 1..Len(all) |-> wrapBlock(all[b])]
    ELSE <<gs[1]>>

\* \w
WordChars ==
  { "a", "b", "c", "d", "e", "f", "g", "h", "i", "j", "k", "l", "m",
    "n", "o", "p", "q", "r", "s", "t", "u", "v", "w", "x", "y", "z",
    "A", "B", "C", "D", "E", "F", "G", "H", "I", "J", "K", "L", "M",
    "N", "O", "P", "Q", "R", "S", "T", "U", "V", "W", "X", "Y", "Z",
    "0", "1", "2", "3", "4", "5", "6", "7", "8", "9", "_" }

\* the class [\\\w .{}@-] of kIdSubRegex
IdChars == WordChars \cup {"\\", " ", ".", "{", "}", "@", "-"}

\* body is in  \([\\\w .{}@-]+\)(?:\|\([\\\w .{}@-]+\))*  : it starts with "(",
\* ends with ")", "(" opens an id at the start or after "|", ")" closes a
\* non-empty id at the end or before "|", "|" stands between ")" and "("
IsIdList(body) ==
  LET n == Len(body) IN
  /\ n >= 3
  /\ body[1] = "("
  /\ body[n] = ")"
  /\ \A i \in 1..n :
       CASE body[i] = "(" -> (i = 1 \/ body[i - 1] = "|") /\ i < n /\ body[i + 1] \in IdChars
         [] body[i] = ")" -> (i = n \/ body[i + 1] = "|") /\ i > 1 /\ body[i - 1] \in IdChars
         [] body[i] = "|" -> i > 1 /\ i < n /\ body[i - 1] = ")" /\ body[i + 1] = "("
         [] OTHER -> body[i] \in IdChars

\* kIsMultipleIds.test(str):  ^/\^\(? ids \)?\$/$  with both outer parens optional
kIsMultipleIds(str) ==
  LET n == Len(str) IN
  /\ n >= 4
  /\ SubSeq(str, 1, 2) = <<"/", "^">>
  /\ SubSeq(str, n - 1, n) = <<"$", "/">>
  /\ \E open \in {0, 1}, close \in {0, 1} :
       /\ 2 + open + close + 2 <= n
       /\ open = 1 => str[3] = "("
       /\ close = 1 => str[n - 2] = ")"
       /\ IsIdList(SubSeq(str, 3 + open, n - 2 - close))

\* kEscapeSequences.test(str): a backslash followed by anything but . { }
kEscapeSequences(str) ==
  \E i \in 1..(Len(str) - 1) : str[i] = "\\" /\ str[i + 1] \notin {".", "{", "}"}

\* (variant: the backslashes stay)
kRegExpRemovalKeepsBackslash(str) ==
  LET n == Len(str)
      lead == IF startsWith(str, <<"/", "^", "(", "(">>) THEN 4
              ELSE IF startsWith(str, <<"/", "^", "(">>) THEN 3 ELSE 0
      rest == SubSeq(str, lead + 1, n)
      m == Len(rest)
      trail == IF m >= 4 /\ SubSeq(rest, m - 3, m) = <<")", ")", "$", "/">> THEN 4
               ELSE IF m >= 3 /\ SubSeq(rest, m - 2, m) = <<")", "$", "/">> THEN 3 ELSE 0
  IN SubSeq(rest, 1, m - trail)

\* str.replace(kRegExpRemovalRegExp, ""):  /^\/\^\(\(?|\\|\)\)?\$\/$/g  removes
\* a leading /^( with an optional second (, every backslash, and a trailing )$/
\* with an optional ) before it
kRegExpRemoval(str) ==
  LET n == Len(str)
      lead == IF startsWith(str, <<"/", "^", "(", "(">>) THEN 4
              ELSE IF startsWith(str, <<"/", "^", "(">>) THEN 3 ELSE 0
      rest == SubSeq(str, lead + 1, n)
      m == Len(rest)
      trail == IF m >= 4 /\ SubSeq(rest, m - 3, m) = <<")", ")", "$", "/">> THEN 4
               ELSE IF m >= 3 /\ SubSeq(rest, m - 2, m) = <<")", "$", "/">> THEN 3 ELSE 0
      kept == SubSeq(rest, 1, m - trail)
  IN SelectSeq(kept, LAMBDA c : c # "\\")

\* the places where the separator )|( starts; two of them never overlap
DelimStarts(str) ==
  {i \in 1..(Len(str) - 2) : str[i] = ")" /\ str[i + 1] = "|" /\ str[i + 2] = "("}

\* str.split(")|("): the pieces from place `from` on
RECURSIVE splitFrom(_, _)
splitFrom(str, from) ==
  LET later == {i \in DelimStarts(str) : i >= from} IN
  IF later = {} THEN <<SubSeq(str, from, Len(str))>>
  ELSE LET i == CHOOSE k \in later : \A j \in later : k <= j IN
         <<SubSeq(str, from, i - 1)>> \o splitFrom(str, i + 3)

split(str) == splitFrom(str, 1)

\* (variant: the array is not passed through a Set)
uniqueInOrderKeepsAll(array, i) == SubSeq(array, i, Len(array))

\* [...new Set(array)]: the distinct elements in order of first occurrence
RECURSIVE uniqueInOrder(_, _)
uniqueInOrder(array, i) ==
  IF i > Len(array) THEN <<>>
  ELSE (IF \E j \in 1..(i - 1) : array[j] = array[i] THEN <<>> ELSE <<array[i]>>)
         \o uniqueInOrder(array, i + 1)

\* (variant: the test for escape sequences is left out)
expandGuidRegexIgnoresEscapes(str) ==
  IF ~startsWith(str, <<"/">>) THEN <<str>>
  ELSE IF kIsMultipleIds(str)
    THEN uniqueInOrder(split(kRegExpRemoval(str)), 1)
    ELSE <<>>

expandGuidRegex(str) ==
  IF ~startsWith(str, <<"/">>) THEN <<str>>
  ELSE IF kIsMultipleIds(str) /\ ~kEscapeSequences(str)
    THEN uniqueInOrder(split(kRegExpRemoval(str)), 1)
    ELSE <<>>

-----------------------------------------------------------------------------
(* The remote services and the tool at rest *)

HARD_BLOCK == 3

Labels == {"work-in-progress", "to-review", "to-sign", "signed"}

NoCall == [op |-> "none", client |-> "none", statii |-> {}, target |-> "none",
           stage |-> "none", seen |-> "none"]

\* the kinto client as far as httpRequest goes: the kind of options.auth, the
\* header it holds, this.authorized, the Authorization of setHeaders, and of
\* the request in progress its Authorization header, what the first attempt
\* got, the attempts made and the deauthorize/authorize cycles gone through
NoHttp ==
  [kind |-> "none", stored |-> "none", authorized |-> FALSE, headers |-> "none",
   pc |-> "idle", requestAuth |-> "none", first |-> "none", attempts |-> 0,
   cycles |-> 0, requests |-> 0, negotiated |-> FALSE, error |-> "none"]

NoCommand ==
  [name |-> "idle", pc |-> "idle", canContinue |-> FALSE, guids |-> <<>>,
   selfsign |-> FALSE, authenticated |-> FALSE, readonly |-> FALSE,
   asserted |-> "none", bugid |-> "", minVersion |-> "0", maxVersion |-> "*",
   entryName |-> "", reason |-> [kinto |-> "", bugzilla |-> ""], answer |-> "",
   create |-> FALSE, data |-> <<>>, snapshot |-> <<>>, checked |-> FALSE,
   blocks |-> <<>>, next |-> 0, res |-> <<>>, exited |-> FALSE, ops |-> 0,
   pending |-> <<>>, hasPending |-> FALSE, selfreview |-> FALSE,
   removeSecurityGroup |-> FALSE, hasReviewer |-> FALSE, usage |-> FALSE,
   line |-> <<>>, idtext |-> <<>>, link |-> <<>>, matched |-> <<>>,
   http |-> NoHttp]

\* no command running, nothing sent yet
ToolIdle ==
  /\ status = "signed"
  /\ statusWrites = <<>>
  /\ records = <<>>
  /\ bugs = <<>>
  /\ amo = <<>>
  /\ otherChanges = 0
  /\ wf = NoCommand
  /\ call = NoCall

-----------------------------------------------------------------------------
(* Inputs of readGuidData *)

GuidA == <<"a">>
GuidB == <<"b">>
GuidC == <<"c", "#">>

\* raw lines: guids with and without surrounding whitespace, blank lines, a comment
LinePool ==
  { <<" ", "a", "\t">>, GuidB, GuidC, <<>>, <<" ", "\t">>, <<" ", "#", "a">> }

\* entries as loadBlocklist stores them: the record with its guid field
ExactEntry(g) == [guid |-> g]

ExactPool == {GuidA, GuidB}

RegexPool ==
  { [re |-> [source |-> <<"^", "a", "$">>, accepts |-> {GuidA}],
     entry |-> [guid |-> <<"/", "^", "a", "$", "/">>]],
    [re |-> [source |-> <<"^", "[", "a", "b", "]", "$">>, accepts |-> {GuidA, GuidB}],
     entry |-> [guid |-> <<"/", "^", "[", "a", "b", "]", "$", "/">>]],
    [re |-> [source |-> <<"#">>, accepts |-> {GuidC}],
     entry |-> [guid |-> <<"/", "#", "/">>]] }

RECURSIVE SetToSeq(_)
SetToSeq(S) ==
  IF S = {} THEN <<>>
  ELSE LET x == CHOOSE y \in S : TRUE IN <<x>> \o SetToSeq(S \ {x})

ExactMap(S) == LET ks == SetToSeq(S) IN
  [i \in 1..Len(ks) |-> [key |-> ks[i], value |-> ExactEntry(ks[i])]]

\* the codec at rest
CodecIdle ==
  /\ glist = <<>>
  /\ blocks = <<>>
  /\ expandArg = <<>>
  /\ expanded = <<>>
  /\ kpc = "idle"

\* readGuidData at rest
ClassifyIdle ==
  /\ lines = <<>>
  /\ guids = <<>>
  /\ regexes = <<>>
  /\ existing = <<>>
  /\ newguids = <<>>
  /\ warnings = <<>>
  /\ rpc = "idle"

InitClassify ==
  /\ lines \in SeqsUpTo(LinePool, MaxLines)
  /\ guids \in {ExactMap(S) : S \in SUBSET ExactPool}
  /\ regexes \in SeqsUpTo(RegexPool, MaxRegexes)
  /\ existing = <<>>
  /\ newguids = <<>>
  /\ warnings = <<>>
  /\ rpc = "input"
  /\ CodecIdle
  /\ ToolIdle

ReadGuidData ==
  /\ rpc = "input"
  /\ LET r == readGuidData(lines, guids, regexes) IN
       /\ existing' = r.existing
       /\ newguids' = r.newguids
       /\ warnings' = r.warnings
  /\ rpc' = "done"
  /\ UNCHANGED <<lines, guids, regexes, codecVars, remoteVars, toolVars>>

NextClassify == ReadGuidData

SpecClassify == InitClassify /\ [][NextClassify]_vars

-----------------------------------------------------------------------------
(* Inputs of the codec *)

Fill(n) == [i \in 1..n |-> "x"]

\* an id of plain characters, with the three characters whose escape is allowed
GuidPlain == <<"{", "a", "@", "x", ".", "y", "}">>

\* a backslash: escaped to \\, which the id class admits
GuidBackslash == <<"c", "\\", "d">>

\* a leading slash, the mark of a regex
GuidSlash == <<"/", "e">>

\* two of these, with the per-guid overhead, fill a block to the last character
GuidHalf == Fill((REGEX_BLOCK_MAXLEN \div 2) - Len(REGEX_BLOCK_DELIM))

\* one character more: two of these no longer fit one block
GuidHalfPlus == Fill((REGEX_BLOCK_MAXLEN \div 2) - Len(REGEX_BLOCK_DELIM) + 1)

\* longer than a block may be
GuidOversize == Fill(REGEX_BLOCK_MAXLEN + 1)

GuidPool ==
  {GuidPlain, GuidBackslash, GuidSlash, GuidHalf, GuidHalfPlus, GuidOversize}

InitCodec ==
  /\ glist \in SeqsUpTo(GuidPool, MaxGuids) \ {<<>>}
  /\ blocks = <<>>
  /\ expandArg = <<>>
  /\ expanded = <<>>
  /\ kpc = "input"
  /\ ClassifyIdle
  /\ ToolIdle

CreateGuidStrings ==
  /\ kpc = "input"
  /\ blocks' = createGuidStrings(glist)
  /\ kpc' = "compiled"
  /\ UNCHANGED <<glist, expandArg, expanded, classifyVars, remoteVars, toolVars>>

\* expandGuidRegex on one of the strings createGuidStrings returned
ExpandGuidRegex ==
  /\ kpc = "compiled"
  /\ \E b \in 1..Len(blocks) :
       /\ expandArg' = blocks[b]
       /\ expanded' = expandGuidRegex(blocks[b])
  /\ kpc' = "expanded"
  /\ UNCHANGED <<glist, blocks, classifyVars, remoteVars, toolVars>>

NextCodec == CreateGuidStrings \/ ExpandGuidRegex

SpecCodec == InitCodec /\ [][NextCodec]_vars

-----------------------------------------------------------------------------
(* Inputs of expandGuidRegex: strings as the blocklist may hold them *)

\* what stands in front of the ids and behind them: the wrappers of the
\* template with and without the outer parens, and pieces of them
FrontPool ==
  { <<>>, <<"/">>, <<"/", "^">>, <<"/", "^", "(">>, <<"/", "^", "(", "(">> }

BackPool ==
  { <<>>, <<"$", "/">>, <<")", "$", "/">>, <<")", ")", "$", "/">> }

\* ids: plain, with a dot, with an escaped dot, with another escape, with a
\* character no id has, and the empty one
IdPool ==
  { <<"a">>, <<"a", ".", "b">>, <<"a", "\\", ".", "b">>, <<"c", "\\", "d">>,
    <<"e", "*">>, <<>> }

\* what stands between two ids
SepPool == { <<")", "|", "(">>, <<"|">>, <<")", "(">> }

StringPool ==
  { front \o join(ids, sep) \o back :
      front \in FrontPool, back \in BackPool, sep \in SepPool,
      ids \in SeqsUpTo(IdPool, MaxIds) \ {<<>>} }

InitExpand ==
  /\ expandArg \in StringPool
  /\ glist = <<>>
  /\ blocks = <<>>
  /\ expanded = <<>>
  /\ kpc = "string"
  /\ ClassifyIdle
  /\ ToolIdle

\* expandGuidRegex on a guid string of a blocklist entry
ExpandString ==
  /\ kpc = "string"
  /\ expanded' = expandGuidRegex(expandArg)
  /\ kpc' = "expandedString"
  /\ UNCHANGED <<glist, blocks, expandArg, classifyVars, remoteVars, toolVars>>

NextExpand == ExpandString

SpecExpand == InitExpand /\ [][NextExpand]_vars

-----------------------------------------------------------------------------
(* The kinto client and the commands *)

\* BlocklistKintoClient.reviewBlocklist / signBlocklist / rejectBlocklist:
\* the states each asserts and the label each writes
reviewBlocklist == [statii |-> {"work-in-progress"}, target |-> "to-review"]

\* (variant: signing is also let through from work-in-progress)
signBlocklistFromAnywhere == [statii |-> {"to-review", "work-in-progress"}, target |-> "to-sign"]

signBlocklist == [statii |-> {"to-review"}, target |-> "to-sign"]

\* (variant: a signed collection can be rejected too)
rejectBlocklistFromSigned == [statii |-> {"to-review", "signed"}, target |-> "work-in-progress"]

rejectBlocklist == [statii |-> {"to-review"}, target |-> "work-in-progress"]

KintoMethod(op) ==
  CASE op = "review" -> reviewBlocklist
    [] op = "sign" -> signBlocklist
    [] op = "reject" -> rejectBlocklist

\* the call record of a state-changing method, before its first await
StartCall(op, client) ==
  [op |-> op, client |-> client, statii |-> KintoMethod(op).statii,
   target |-> KintoMethod(op).target, stage |-> "ensure", seen |-> "none"]

\* the call record of a plain ensureBlocklistState(statii)
StartEnsure(statii) ==
  [op |-> "ensure", client |-> "kinto", statii |-> statii, target |-> "none",
   stage |-> "ensure", seen |-> "none"]

\* (variant: the negation of the test is lost)
ensureOutcomeNegated(c, label) ==
  IF label \notin c.statii
    THEN (IF c.op = "ensure" THEN "returned" ELSE "update")
    ELSE "raised"

\* ensureBlocklistState after the label came back: statii.includes(status)
ensureOutcome(c, label) ==
  IF label \in c.statii
    THEN (IF c.op = "ensure" THEN "returned" ELSE "update")
    ELSE "raised"

\* somebody else (another operator, the signer) sets the label
OtherOperator ==
  /\ otherChanges < MaxOtherChanges
  /\ \E label \in Labels \ {status} : status' = label
  /\ otherChanges' = otherChanges + 1
  /\ UNCHANGED <<statusWrites, records, bugs, amo, toolVars, classifyVars, codecVars>>

\* ensureBlocklistState: getBlocklistStatus reads the label, then the test
\* (variant: the label an earlier assertion of the run read is used again)
EnsureBlocklistStateCached ==
  /\ call.stage = "ensure"
  /\ LET label == IF wf.asserted # "none" THEN wf.asserted ELSE status IN
       call' = [call EXCEPT !.seen = label, !.stage = ensureOutcome(call, label)]
  /\ UNCHANGED <<wf, remoteVars, classifyVars, codecVars>>

EnsureBlocklistState ==
  /\ call.stage = "ensure"
  /\ call' = [call EXCEPT !.seen = status, !.stage = ensureOutcome(call, status)]
  /\ UNCHANGED <<wf, remoteVars, classifyVars, codecVars>>

\* _updateCollectionStatus: setData({ status }, { patch: true })
UpdateCollectionStatus ==
  /\ call.stage = "update"
  /\ status' = call.target
  /\ statusWrites' = Append(statusWrites,
                            [client |-> call.client, status |-> call.target, replaced |-> status])
  /\ call' = [call EXCEPT !.stage = "returned"]
  /\ UNCHANGED <<wf, records, bugs, amo, otherChanges, classifyVars, codecVars>>

\* the sets of labels a direct call of ensureBlocklistState is given
StatiiPool == { {}, {"signed"}, {"work-in-progress", "to-review"}, Labels }

\* a direct call of ensureBlocklistState(statii)
CallEnsure ==
  /\ wf.name = "idle"
  /\ \E statii \in StatiiPool :
       call' = StartEnsure(statii)
  /\ wf' = [NoCommand EXCEPT !.name = "ensure", !.pc = "call"]
  /\ UNCHANGED <<remoteVars, classifyVars, codecVars>>

\* a direct call of reviewBlocklist(), signBlocklist() or rejectBlocklist()
CallTransition ==
  /\ wf.name = "idle"
  /\ \E op \in {"review", "sign", "reject"} :
       /\ call' = StartCall(op, "kinto")
       /\ wf' = [NoCommand EXCEPT !.name = op, !.pc = "call"]
  /\ UNCHANGED <<remoteVars, classifyVars, codecVars>>

\* the method returned or threw: the command ends with it
CallEnds ==
  /\ wf.name \in {"ensure", "review", "sign", "reject"}
  /\ wf.pc = "call"
  /\ call.stage \in {"returned", "raised"}
  /\ wf' = [wf EXCEPT !.pc = call.stage]
  /\ UNCHANGED <<call, remoteVars, classifyVars, codecVars>>

\* the process exits with the outcome of its command
Exit ==
  /\ ~wf.exited
  /\ wf.pc \in {"returned", "raised", "aborted"}
  /\ wf' = [wf EXCEPT !.exited = TRUE]
  /\ UNCHANGED <<call, remoteVars, classifyVars, codecVars>>

-----------------------------------------------------------------------------
(* createBlocklistEntryInteractively *)

\* the guid lists the create command is run with: one guid, two guids in one
\* block, two guids that need a block each
CreateGuidLists == {<<GuidPlain>>, <<GuidPlain, GuidBackslash>>, <<GuidHalf, GuidHalfPlus>>}

\* the bug tracker client: with an API key, with a read-only one, without one
BugzillaConfigs ==
  { [authenticated |-> TRUE, readonly |-> FALSE],
    [authenticated |-> TRUE, readonly |-> TRUE],
    [authenticated |-> FALSE, readonly |-> FALSE] }

\* the id an existing bug is entered with, and the id bugzilla.create returns
EnteredBugId == "101"
CreatedBugId == "201"

\* (variant: the first revision, where --continue admits work-in-progress only)
requestedStatesFirstRevision(canContinue) ==
  IF canContinue THEN {"signed", "work-in-progress"} ELSE {"signed"}

\* requestedStates, as pushed before the call of ensureBlocklistState
requestedStates(canContinue) ==
  IF canContinue THEN {"signed", "work-in-progress", "to-review"} ELSE {"signed"}

\* the command starts: its first await is ensureBlocklistState(requestedStates)
CallCreate ==
  /\ wf.name = "idle"
  /\ \E canContinue \in BOOLEAN, selfsign \in BOOLEAN, gs \in CreateGuidLists,
        bz \in BugzillaConfigs :
       wf' = [NoCommand EXCEPT !.name = "create", !.pc = "ensure",
                               !.canContinue = canContinue, !.guids = gs,
                               !.selfsign = selfsign,
                               !.authenticated = bz.authenticated,
                               !.readonly = bz.readonly]
  /\ call' = StartEnsure(requestedStates(wf'.canContinue))
  /\ UNCHANGED <<remoteVars, classifyVars, codecVars>>

\* ensureBlocklistState threw: the error leaves the workflow
CreateAborts ==
  /\ wf.name = "create"
  /\ wf.pc = "ensure"
  /\ call.stage = "raised"
  /\ wf' = [wf EXCEPT !.pc = "aborted", !.asserted = call.seen]
  /\ UNCHANGED <<call, remoteVars, classifyVars, codecVars>>

\* the names entered for a block, and the reason (canned or custom) with its
\* text for the entry and its text for the bug
NamePool == {"Bad Addon", "Other Addon"}
ReasonPool == {[kinto |-> "This add-on violates policy.", bugzilla |-> "Blocked for policy."]}

\* what is typed at a version prompt: nothing, or a version
VersionAnswers == {"", "1.0"}

\* waitForInput(...) || fallback
OrDefault(input, fallback) == IF input = "" THEN fallback ELSE input

\* (variant: the version prompts are shown whatever the number of guids)
CreatePromptsAlwaysAsksVersion ==
  /\ wf.name = "create"
  /\ wf.pc = "ensure"
  /\ call.stage = "returned"
  /\ \E bugid \in (IF wf.authenticated THEN {"", EnteredBugId} ELSE {EnteredBugId}),
        name \in NamePool, reason \in ReasonPool,
        minAnswer \in VersionAnswers, maxAnswer \in VersionAnswers,
        answer \in {"y", "n"} :
       wf' = [wf EXCEPT !.asserted = call.seen,
                        !.bugid = bugid,
                        !.entryName = name,
                        !.reason = reason,
                        !.minVersion = OrDefault(minAnswer, "0"),
                        !.maxVersion = OrDefault(maxAnswer, "*"),
                        !.answer = answer,
                        !.pc = IF answer = "y" THEN "bug" ELSE "returned"]
  /\ UNCHANGED <<call, remoteVars, classifyVars, codecVars>>

\* the prompts: bug id (empty to create one, which needs an API key), name,
\* reason, the version range for a single guid, and the final question
CreatePrompts ==
  /\ wf.name = "create"
  /\ wf.pc = "ensure"
  /\ call.stage = "returned"
  /\ \E bugid \in (IF wf.authenticated THEN {"", EnteredBugId} ELSE {EnteredBugId}),
        name \in NamePool, reason \in ReasonPool,
        minAnswer \in (IF Len(wf.guids) = 1 THEN VersionAnswers ELSE {"unasked"}),
        maxAnswer \in (IF Len(wf.guids) = 1 THEN VersionAnswers ELSE {"unasked"}),
        answer \in {"y", "n"} :
       wf' = [wf EXCEPT !.asserted = call.seen,
                        !.bugid = bugid,
                        !.entryName = name,
                        !.reason = reason,
                        !.minVersion = IF Len(wf.guids) = 1
                                         THEN OrDefault(minAnswer, "0") ELSE "0",
                        !.maxVersion = IF Len(wf.guids) = 1
                                         THEN OrDefault(maxAnswer, "*") ELSE "*",
                        !.answer = answer,
                        !.pc = IF answer = "y" THEN "bug" ELSE "returned"]
  /\ UNCHANGED <<call, remoteVars, classifyVars, codecVars>>

\* (variant: the bug is written before the state was asserted)
CreateBugUnguarded ==
  /\ wf.name = "create"
  /\ wf.pc \in {"ensure", "bug"}
  /\ bugs' = Append(bugs, [request |-> "update", ids |-> {EnteredBugId},
                           status |-> "ASSIGNED", resolution |-> ""])
  /\ wf' = [wf EXCEPT !.pc = "entries", !.bugid = EnteredBugId,
                      !.blocks = createGuidStrings(wf.guids), !.next = 1]
  /\ UNCHANGED <<call, status, statusWrites, records, amo, otherChanges,
                 classifyVars, codecVars>>

\* (variant: the entries are created first, the bug is left for later)
CreateBugLater ==
  /\ wf.name = "create"
  /\ wf.pc = "bug"
  /\ wf' = [wf EXCEPT !.pc = "entries",
                      !.blocks = createGuidStrings(wf.guids), !.next = 1]
  /\ UNCHANGED <<call, remoteVars, classifyVars, codecVars>>

\* answer y: the bug is updated, or created when no id was entered
CreateBug ==
  /\ wf.name = "create"
  /\ wf.pc = "bug"
  /\ IF wf.bugid # ""
       THEN /\ bugs' = Append(bugs, [request |-> "update", ids |-> {wf.bugid},
                                     status |-> "ASSIGNED", resolution |-> ""])
            /\ wf' = [wf EXCEPT !.pc = "entries",
                                !.blocks = createGuidStrings(wf.guids), !.next = 1]
       ELSE IF wf.readonly
         THEN /\ wf' = [wf EXCEPT !.pc = "raised"]
              /\ UNCHANGED bugs
         ELSE /\ bugs' = Append(bugs, [request |-> "create", ids |-> {CreatedBugId},
                                       status |-> "ASSIGNED", resolution |-> ""])
              /\ wf' = [wf EXCEPT !.pc = "entries", !.bugid = CreatedBugId,
                                  !.blocks = createGuidStrings(wf.guids), !.next = 1]
  /\ UNCHANGED <<call, status, statusWrites, records, amo, otherChanges,
                 classifyVars, codecVars>>

\* (variant: only the first block is sent, with the others left out)
CreateEntryFirstBlockOnly ==
  /\ wf.name = "create"
  /\ wf.pc = "entries"
  /\ wf.next <= Len(wf.blocks)
  /\ records' = Append(records,
                       [guid |-> wf.blocks[wf.next], bug |-> wf.bugid,
                        name |-> wf.entryName, why |-> wf.reason.kinto,
                        severity |-> HARD_BLOCK, minVersion |-> wf.minVersion,
                        maxVersion |-> wf.maxVersion, enabled |-> TRUE])
  /\ IF wf.selfsign
       THEN wf' = [wf EXCEPT !.next = Len(wf.blocks) + 1, !.pc = "signBlocklist",
                             !.selfreview = TRUE, !.hasPending = FALSE]
       ELSE wf' = [wf EXCEPT !.next = Len(wf.blocks) + 1, !.pc = "users"]
  /\ UNCHANGED call
  /\ UNCHANGED <<status, statusWrites, bugs, amo, otherChanges,
                 classifyVars, codecVars>>

\* one turn of the loop over the blocks: kinto.createBlocklistEntry; after the
\* last block the workflow goes on to self-signing or to the users
CreateEntry ==
  /\ wf.name = "create"
  /\ wf.pc = "entries"
  /\ wf.next <= Len(wf.blocks)
  /\ records' = Append(records,
                       [guid |-> wf.blocks[wf.next], bug |-> wf.bugid,
                        name |-> wf.entryName, why |-> wf.reason.kinto,
                        severity |-> HARD_BLOCK, minVersion |-> wf.minVersion,
                        maxVersion |-> wf.maxVersion, enabled |-> TRUE])
  /\ IF wf.next < Len(wf.blocks)
       THEN wf' = [wf EXCEPT !.next = wf.next + 1]
       ELSE IF wf.selfsign
         THEN wf' = [wf EXCEPT !.next = wf.next + 1, !.pc = "signBlocklist",
                               !.selfreview = TRUE, !.hasPending = FALSE]
         ELSE wf' = [wf EXCEPT !.next = wf.next + 1, !.pc = "users"]
  /\ UNCHANGED call
  /\ UNCHANGED <<status, statusWrites, bugs, amo, otherChanges,
                 classifyVars, codecVars>>

\* entries as compareAddonCollection lists them: the guid, the id in the bug
\* link (id=(\d+)), whether the entry is a deletion, and whether the bug has
\* the comment of an earlier review request
PendingEntry(guid, bug, deleted, requested) ==
  [guid |-> guid, bug |-> bug, deleted |-> deleted, requested |-> requested]

PendingPool ==
  { <<>>,
    <<PendingEntry(<<"a">>, "101", FALSE, FALSE)>>,
    <<PendingEntry(<<"a">>, "101", FALSE, FALSE),
      PendingEntry(<<"/", "^", "(", "(", "b", ")", "|", "(", "c", ")", ")", "$", "/">>,
                   "101", FALSE, TRUE),
      PendingEntry(<<"b">>, "", FALSE, FALSE),
      PendingEntry(<<"c">>, "102", TRUE, FALSE)>> }

\* the entries this run created, as a later listing shows them
OwnEntries ==
  [n \in 1..Len(records) |-> PendingEntry(records[n].guid, records[n].bug, FALSE, FALSE)]

\* kinto.getBlocklistPreview(): what this run staged and what others did
PreviewPool == { OwnEntries \o others : others \in PendingPool }

\* the bugs of the entries, one after the other
BugsOf(entries) == [n \in 1..Len(entries) |-> entries[n].bug]

\* the bugset of signBlocklist as a list: the bugs of the entries that are not
\* deleted and have one, each once
SignBugset(res) ==
  uniqueInOrder(BugsOf(SelectSeq(res, LAMBDA entry : ~entry.deleted /\ entry.bug # "")), 1)

\* the workflows that call signBlocklist
SignCallers == {"create", "reviewAndSignBlocklist"}

\* signBlocklist({ pending, selfsign, selfreview }): the question about the
\* security group, the test of the arguments, and the first request
SignBlocklist ==
  /\ wf.name \in SignCallers
  /\ wf.pc = "signBlocklist"
  /\ \E input \in (IF wf.authenticated THEN {"y", ""} ELSE {"unasked"}),
        preview \in PreviewPool :
       LET removeSecurityGroup == (input = "y") IN
       IF wf.selfsign /\ wf.selfreview /\ wf.hasPending
         THEN /\ wf' = [wf EXCEPT !.pc = "raised",
                                  !.removeSecurityGroup = removeSecurityGroup]
              /\ UNCHANGED call
         ELSE IF wf.selfsign /\ wf.selfreview
           THEN /\ wf' = [wf EXCEPT !.pc = "review",
                                    !.removeSecurityGroup = removeSecurityGroup]
                /\ call' = StartCall("review", "kinto")
           ELSE /\ wf' = [wf EXCEPT !.pc = "sign",
                                    !.removeSecurityGroup = removeSecurityGroup,
                                    !.res = IF wf.hasPending THEN wf.pending ELSE preview]
                /\ call' = StartCall("sign", IF wf.selfsign THEN "kintoapprover" ELSE "kinto")
  /\ UNCHANGED <<remoteVars, classifyVars, codecVars>>

\* (variant: the approver signs whether or not the review went through)
SelfSignReviewedOrNot ==
  /\ wf.name \in SignCallers
  /\ wf.pc = "review"
  /\ call.stage \in {"returned", "raised"}
  /\ \E preview \in PreviewPool :
       wf' = [wf EXCEPT !.pc = "sign", !.res = preview]
  /\ call' = StartCall("sign", "kintoapprover")
  /\ UNCHANGED <<remoteVars, classifyVars, codecVars>>

\* after kinto.reviewBlocklist() the preview is read and the approver client
\* signs
SelfSignReviewed ==
  /\ wf.name \in SignCallers
  /\ wf.pc = "review"
  /\ call.stage = "returned"
  /\ \E preview \in PreviewPool :
       wf' = [wf EXCEPT !.pc = "sign", !.res = preview]
  /\ call' = StartCall("sign", "kintoapprover")
  /\ UNCHANGED <<remoteVars, classifyVars, codecVars>>

\* reviewBlocklist or signBlocklist threw: the error leaves the workflow
SelfSignFails ==
  /\ wf.name \in SignCallers
  /\ wf.pc \in {"review", "sign"}
  /\ call.stage = "raised"
  /\ wf' = [wf EXCEPT !.pc = "raised"]
  /\ UNCHANGED <<call, remoteVars, classifyVars, codecVars>>

\* the bugzilla.update of signBlocklist
ResolveBugs(ids, groups) ==
  [request |-> "update", ids |-> ids, status |-> "RESOLVED", resolution |-> "FIXED",
   groups |-> groups]

\* (variant: the bugs of deleted entries are resolved too)
SelfSignSignedAllEntries ==
  /\ wf.name \in SignCallers
  /\ wf.pc = "sign"
  /\ call.stage = "returned"
  /\ LET bugset == BugsOf(wf.res)
         after == IF wf.name = "create" THEN "users" ELSE "recordUsers"
     IN IF wf.authenticated /\ Len(bugset) > 0
          THEN \E outcome \in {"done", "retried", "failed"} :
                 CASE outcome = "done" ->
                        /\ bugs' = Append(bugs, ResolveBugs(bugset, wf.removeSecurityGroup))
                        /\ wf' = [wf EXCEPT !.pc = after]
                   [] outcome = "retried" ->
                        /\ wf.removeSecurityGroup
                        /\ bugs' = bugs \o <<ResolveBugs(bugset, TRUE), ResolveBugs(bugset, FALSE)>>
                        /\ wf' = [wf EXCEPT !.pc = after]
                   [] outcome = "failed" ->
                        /\ bugs' = Append(bugs, ResolveBugs(bugset, wf.removeSecurityGroup))
                        /\ wf' = [wf EXCEPT !.pc = "raised"]
          ELSE /\ UNCHANGED bugs
               /\ wf' = [wf EXCEPT !.pc = after]
  /\ UNCHANGED <<call, status, statusWrites, records, amo, otherChanges,
                 classifyVars, codecVars>>

\* after the signing request: the bugs of res are resolved; when removing the
\* security group is refused (401, code 120) the update is sent again without
\* it, any other error leaves the workflow
SelfSignSigned ==
  /\ wf.name \in SignCallers
  /\ wf.pc = "sign"
  /\ call.stage = "returned"
  /\ LET bugset == SignBugset(wf.res)
         after == IF wf.name = "create" THEN "users" ELSE "recordUsers"
     IN IF wf.authenticated /\ Len(bugset) > 0
          THEN \E outcome \in {"done", "retried", "failed"} :
                 CASE outcome = "done" ->
                        /\ bugs' = Append(bugs, ResolveBugs(bugset, wf.removeSecurityGroup))
                        /\ wf' = [wf EXCEPT !.pc = after]
                   [] outcome = "retried" ->
                        /\ wf.removeSecurityGroup
                        /\ bugs' = bugs \o <<ResolveBugs(bugset, TRUE), ResolveBugs(bugset, FALSE)>>
                        /\ wf' = [wf EXCEPT !.pc = after]
                   [] outcome = "failed" ->
                        /\ bugs' = Append(bugs, ResolveBugs(bugset, wf.removeSecurityGroup))
                        /\ wf' = [wf EXCEPT !.pc = "raised"]
          ELSE /\ UNCHANGED bugs
               /\ wf' = [wf EXCEPT !.pc = after]
  /\ UNCHANGED <<call, status, statusWrites, records, amo, otherChanges,
                 classifyVars, codecVars>>

\* the users are banned, or the add-ons and their files disabled
CreateBanOrDisable ==
  /\ wf.name = "create"
  /\ wf.pc = "users"
  /\ \E shouldBan \in {"y", "n"} :
       amo' = Append(amo, [request |-> IF shouldBan = "y" THEN "ban" ELSE "disable",
                           guids |-> wf.guids])
  /\ wf' = [wf EXCEPT !.pc = "returned"]
  /\ UNCHANGED <<call, status, statusWrites, records, bugs, otherChanges,
                 classifyVars, codecVars>>

-----------------------------------------------------------------------------
(* reviewBlocklist and reviewAndSignBlocklist *)

\* the bugs reviewBlocklist asks the reviewer about: those of the entries
\* whose bug has no request yet
ReviewBugset(pending) ==
  uniqueInOrder(BugsOf(SelectSeq(pending, LAMBDA entry : ~entry.requested /\ entry.bug # "")), 1)

\* the review command: the entries in progress are shown, and with entries
\* and the answer y its next await is kinto.reviewBlocklist()
CallReviewBlocklist ==
  /\ wf.name = "idle"
  /\ \E pending \in PendingPool, authenticated \in BOOLEAN, reviewer \in BOOLEAN,
        answer \in {"y", "n"} :
       LET started == [NoCommand EXCEPT !.name = "reviewBlocklist",
                                        !.pending = pending,
                                        !.authenticated = authenticated,
                                        !.hasReviewer = authenticated /\ reviewer]
       IN IF Len(pending) = 0
            THEN /\ wf' = [started EXCEPT !.pc = "returned"]
                 /\ UNCHANGED call
            ELSE IF answer = "y"
              THEN /\ wf' = [started EXCEPT !.answer = answer, !.pc = "review"]
                   /\ call' = StartCall("review", "kinto")
              ELSE /\ wf' = [started EXCEPT !.answer = answer, !.pc = "returned"]
                   /\ UNCHANGED call
  /\ UNCHANGED <<remoteVars, classifyVars, codecVars>>

\* kinto.reviewBlocklist() threw: the error leaves the command
ReviewFails ==
  /\ wf.name = "reviewBlocklist"
  /\ wf.pc = "review"
  /\ call.stage = "raised"
  /\ wf' = [wf EXCEPT !.pc = "raised"]
  /\ UNCHANGED <<call, remoteVars, classifyVars, codecVars>>

\* (variant: the reviewer is asked before the label is written)
ReviewRequestedEarly ==
  /\ wf.name = "reviewBlocklist"
  /\ wf.pc = "review"
  /\ call.stage \in {"update", "returned"}
  /\ IF wf.hasReviewer
       THEN bugs' = Append(bugs, [request |-> "needinfo", ids |-> ReviewBugset(wf.pending),
                                  status |-> "", resolution |-> ""])
       ELSE UNCHANGED bugs
  /\ wf' = [wf EXCEPT !.pc = "returned"]
  /\ UNCHANGED <<call, status, statusWrites, records, amo, otherChanges,
                 classifyVars, codecVars>>

\* kinto.reviewBlocklist() returned: with a reviewer configured the bugs get
\* the comment and the needinfo request
ReviewRequested ==
  /\ wf.name = "reviewBlocklist"
  /\ wf.pc = "review"
  /\ call.stage = "returned"
  /\ IF wf.hasReviewer
       THEN bugs' = Append(bugs, [request |-> "needinfo", ids |-> ReviewBugset(wf.pending),
                                  status |-> "", resolution |-> ""])
       ELSE UNCHANGED bugs
  /\ wf' = [wf EXCEPT !.pc = "returned"]
  /\ UNCHANGED <<call, status, statusWrites, records, amo, otherChanges,
                 classifyVars, codecVars>>

\* the sign command: the entries of the preview are shown, or with selfsign
\* and an empty preview the ones in progress; with entries and the answer y
\* it calls signBlocklist(signparams)
CallReviewAndSign ==
  /\ wf.name = "idle"
  /\ \E selfsign \in BOOLEAN, authenticated \in BOOLEAN, usage \in BOOLEAN,
        preview \in PendingPool, staging \in PendingPool, ready \in {"y", "n"} :
       LET pending == IF Len(preview) > 0 \/ ~selfsign THEN preview ELSE staging
           started == [NoCommand EXCEPT !.name = "reviewAndSignBlocklist",
                                        !.selfsign = selfsign,
                                        !.authenticated = authenticated,
                                        !.usage = usage,
                                        !.pending = pending,
                                        !.hasPending = Len(preview) > 0,
                                        !.selfreview = selfsign]
       IN IF Len(pending) > 0
            THEN wf' = [started EXCEPT !.answer = ready,
                                       !.pc = IF ready = "y" THEN "signBlocklist"
                                                             ELSE "returned"]
            ELSE wf' = [started EXCEPT !.pc = "returned"]
  /\ UNCHANGED <<call, remoteVars, classifyVars, codecVars>>

\* the rows recordUsers appends: one for each guid of each entry
RECURSIVE UserRows(_, _)
UserRows(pending, n) ==
  IF n > Len(pending) THEN <<>>
  ELSE LET gs == expandGuidRegex(pending[n].guid) IN
       [i \in 1..Len(gs) |-> [guid |-> gs[i], bug |-> pending[n].bug]]
         \o UserRows(pending, n + 1)

\* recordUsers(pending): with usage numbers at hand the rows go to the sheet
RecordUsers ==
  /\ wf.name = "reviewAndSignBlocklist"
  /\ wf.pc = "recordUsers"
  /\ IF wf.usage
       THEN amo' = Append(amo, [request |-> "appendUserRows",
                                guids |-> UserRows(wf.pending, 1)])
       ELSE UNCHANGED amo
  /\ wf' = [wf EXCEPT !.pc = "returned"]
  /\ UNCHANGED <<call, status, statusWrites, records, bugs, otherChanges,
                 classifyVars, codecVars>>

-----------------------------------------------------------------------------
(* checkGuidsInteractively *)

\* what listRecords returns: entries with a literal guid, with a regex between
\* slashes, with a regex that starts with ^, and with a regex that is not one
SnapshotPool ==
  { <<>>,
    <<[guid |-> <<"a">>], [guid |-> <<"/", "^", "[", "a", "b", "]", "$", "/">>]>>,
    <<[guid |-> <<"^", "a", "$">>]>>,
    <<[guid |-> <<"b">>], [guid |-> <<"/", "^", "(", "a", "$", "/">>],
      [guid |-> <<"/", "#", "/">>]>> }

\* the guids given on the command line or on stdin
CheckDataPool ==
  { <<<<" ", "a", "\t">>, <<"b">>>>, <<<<"b">>, <<"c", "#">>>>, <<<<"#", "a">>, <<>>>> }

\* redash.queryAddonsInvolvedAccounts: the add-ons of the users involved
InvolvedPool == { <<>>, <<<<"b">>>> }

\* the sublists of a list, each by the places it keeps
SubLists(xs) ==
  { SelectSeq([i \in 1..Len(xs) |-> [at |-> i, x |-> xs[i]]], LAMBDA e : e.at \in keep) :
      keep \in SUBSET (1..Len(xs)) }

Values(es) == [i \in 1..Len(es) |-> es[i].x]

\* the command starts: its first await is kinto.loadBlocklist
CallCheck ==
  /\ wf.name = "idle"
  /\ \E create \in BOOLEAN, canContinue \in BOOLEAN, data \in CheckDataPool,
        snapshot \in SnapshotPool :
       wf' = [NoCommand EXCEPT !.name = "check", !.pc = "load",
                               !.create = create, !.canContinue = canContinue,
                               !.data = data, !.snapshot = snapshot,
                               !.authenticated = TRUE, !.checked = TRUE]
  /\ UNCHANGED <<call, remoteVars, classifyVars, codecVars>>

\* loadBlocklist returns the two maps, or new RegExp throws out of it
LoadBlocklist ==
  /\ wf.name = "check"
  /\ wf.pc = "load"
  /\ LET loaded == loadBlocklist(wf.snapshot) IN
       IF loaded.threw
         THEN /\ wf' = [wf EXCEPT !.pc = "raised"]
              /\ UNCHANGED <<guids, regexes>>
         ELSE /\ wf' = [wf EXCEPT !.pc = "classify"]
              /\ guids' = loaded.guids
              /\ regexes' = loaded.regexes
  /\ UNCHANGED <<lines, existing, newguids, warnings, rpc, call, remoteVars, codecVars>>

\* the ids are trimmed and taken for guids or for a mixture (detectIdType),
\* the add-ons of the users involved are added when asked for on the command
\* line or at the prompt, and readGuidData classifies them
CheckReadGuidData ==
  /\ wf.name = "check"
  /\ wf.pc = "classify"
  /\ \E type \in {"guid", "mixed"}, alluserguids \in InvolvedPool,
        allFromUsers \in BOOLEAN, input \in {"y", ""} :
       LET current == [i \in 1..Len(wf.data) |-> trim(wf.data[i])]
           currentguidset == uniqueInOrder(current, 1)
           otherguidset ==
             uniqueInOrder(SelectSeq(alluserguids, LAMBDA g : g \notin Range(current)), 1)
           all == IF ~allFromUsers /\ Len(otherguidset) > 0
                    THEN input = "y"
                    ELSE allFromUsers
           data == IF all
                     THEN uniqueInOrder(alluserguids \o currentguidset, 1)
                     ELSE current
           r == readGuidData(data, guids, regexes)
       IN IF type = "mixed"
            THEN /\ wf' = [wf EXCEPT !.pc = "returned"]
                 /\ UNCHANGED <<lines, existing, newguids, warnings, rpc>>
            ELSE /\ lines' = data
                 /\ existing' = r.existing
                 /\ newguids' = r.newguids
                 /\ warnings' = r.warnings
                 /\ rpc' = "done"
                 /\ wf' = [wf EXCEPT !.pc = "separate"]
  /\ UNCHANGED <<guids, regexes, call, remoteVars, codecVars>>

\* (variant: all the ids that were checked are passed on)
CheckCreateAllChecked ==
  /\ wf.name = "check"
  /\ wf.pc = "separate"
  /\ LET newguidvalues == lines IN
       IF Len(newguidvalues) > 0
         THEN IF wf.create
           THEN /\ wf' = [wf EXCEPT !.name = "create", !.pc = "ensure",
                                    !.guids = newguidvalues]
                /\ call' = StartEnsure(requestedStates(wf.canContinue))
                /\ UNCHANGED <<glist, blocks>>
           ELSE /\ wf' = [wf EXCEPT !.pc = "returned"]
                /\ glist' = newguidvalues
                /\ blocks' = createGuidStrings(newguidvalues)
                /\ UNCHANGED call
         ELSE /\ wf' = [wf EXCEPT !.pc = "returned"]
              /\ UNCHANGED <<call, glist, blocks>>
  /\ UNCHANGED <<expandArg, expanded, kpc, remoteVars, classifyVars>>

\* redash.querySeparateLegacyAndUnsigned sorts the new guids into webextensions,
\* legacy, unsigned and invalid ones; the webextensions, when there are any, go
\* on to the create workflow or are printed as block strings
CheckCreate ==
  /\ wf.name = "check"
  /\ wf.pc = "separate"
  /\ \E webex \in SubLists(newguids) :
       LET newguidvalues == Values(webex) IN
       IF Len(newguidvalues) > 0
         THEN IF wf.create
           THEN /\ wf' = [wf EXCEPT !.name = "create", !.pc = "ensure",
                                    !.guids = newguidvalues]
                /\ call' = StartEnsure(requestedStates(wf.canContinue))
                /\ UNCHANGED <<glist, blocks>>
           ELSE /\ wf' = [wf EXCEPT !.pc = "returned"]
                /\ glist' = newguidvalues
                /\ blocks' = createGuidStrings(newguidvalues)
                /\ UNCHANGED call
         ELSE /\ wf' = [wf EXCEPT !.pc = "returned"]
              /\ UNCHANGED <<call, glist, blocks>>
  /\ UNCHANGED <<expandArg, expanded, kpc, remoteVars, classifyVars>>

-----------------------------------------------------------------------------
(* The tool against the remote services *)

Init ==
  /\ status \in Labels
  /\ statusWrites = <<>>
  /\ records = <<>>
  /\ bugs = <<>>
  /\ amo = <<>>
  /\ otherChanges = 0
  /\ wf = NoCommand
  /\ call = NoCall
  /\ ClassifyIdle
  /\ CodecIdle

Next ==
  \/ OtherOperator
  \/ EnsureBlocklistState
  \/ UpdateCollectionStatus
  \/ CallEnsure
  \/ CallTransition
  \/ CallEnds
  \/ Exit
  \/ CallCreate
  \/ CreateAborts
  \/ CreatePrompts
  \/ CreateBug
  \/ CreateEntry
  \/ SignBlocklist
  \/ SelfSignReviewed
  \/ SelfSignFails
  \/ SelfSignSigned
  \/ CreateBanOrDisable
  \/ CallReviewBlocklist
  \/ ReviewFails
  \/ ReviewRequested
  \/ CallReviewAndSign
  \/ RecordUsers
  \/ CallCheck
  \/ LoadBlocklist
  \/ CheckReadGuidData
  \/ CheckCreate

Spec == Init /\ [][Next]_vars

-----------------------------------------------------------------------------
(* The bug id: from the prompt to the link of the entry and back *)

BugLink ==
  <<"h", "t", "t", "p", "s", ":", "/", "/", "b", "u", "g", "z", "i", "l",
    "l", "a", ".", "m", "o", "z", "i", "l", "l", "a", ".", "o", "r", "g",
    "/", "s", "h", "o", "w", "_", "b", "u", "g", ".", "c", "g", "i", "?",
    "i", "d", "=">>

Digits == {"0", "1", "2", "3", "4", "5", "6", "7", "8", "9"}

\* the first place where pat stands in str, 0 when it does not
IndexOf(str, pat) ==
  LET at == {i \in 1..(Len(str) - Len(pat) + 1) : SubSeq(str, i, i + Len(pat) - 1) = pat}
  IN IF at = {} THEN 0 ELSE CHOOSE i \in at : \A k \in at : i <= k

\* String.prototype.replace(pat, "") with a string pattern: the first
\* occurrence is taken out
replace(str, pat) ==
  LET i == IndexOf(str, pat)
  IN IF i = 0 THEN str
     ELSE SubSeq(str, 1, i - 1) \o SubSeq(str, i + Len(pat), Len(str))

\* the longest run of digits of str from place i on
RECURSIVE digitRun(_, _)
digitRun(str, i) ==
  IF i > Len(str) \/ str[i] \notin Digits THEN <<>>
  ELSE <<str[i]>> \o digitRun(str, i + 1)

\* isNaN(parseInt(str, 10)) for a trimmed string: after an optional sign
\* parseInt reads the digits it finds and ignores what follows them
parseIntIsNaN(str) ==
  LET body == IF str # <<>> /\ str[1] \in {"+", "-"} THEN Tail(str) ELSE str
  IN digitRun(body, 1) = <<>>

\* the test of the prompt loop: an empty id needs an API key, any other id
\* must make parseInt give a number
acceptsBugId(bugid, authenticated) ==
  IF bugid = <<>> THEN authenticated
  ELSE ~parseIntIsNaN(bugid)

\* str.match(/id=(\d+)/): the first place where id= is followed by a digit,
\* and the digits from there; <<>> stands for null
matchBugId(str) ==
  LET at == {i \in 1..Len(str) :
               /\ i + 3 <= Len(str)
               /\ SubSeq(str, i, i + 2) = <<"i", "d", "=">>
               /\ str[i + 3] \in Digits}
  IN IF at = {} THEN <<>>
     ELSE digitRun(str, 3 + CHOOSE i \in at : \A k \in at : i <= k)

\* what is typed at the prompt: an id, or the link of a bug
IdAlphabet == {"1", "2", "a", "-"}

TypedPool ==
  LET ids == SeqsUpTo(IdAlphabet, MaxBugIdLen)
  IN ids \cup {BugLink \o id : id \in ids}

InitBugId ==
  /\ status = "signed"
  /\ statusWrites = <<>>
  /\ records = <<>>
  /\ bugs = <<>>
  /\ amo = <<>>
  /\ otherChanges = 0
  /\ \E line \in TypedPool, authenticated \in BOOLEAN :
       wf = [NoCommand EXCEPT !.name = "bugid", !.pc = "prompt",
                              !.line = line, !.authenticated = authenticated]
  /\ call = NoCall
  /\ ClassifyIdle
  /\ CodecIdle

\* one turn of the prompt loop: the link prefix is taken out and the id is
\* accepted or asked for again
BugPrompt ==
  /\ wf.name = "bugid"
  /\ wf.pc = "prompt"
  /\ LET bugid == replace(wf.line, BugLink) IN
       wf' = [wf EXCEPT !.idtext = bugid,
                        !.pc = IF acceptsBugId(bugid, wf.authenticated)
                                 THEN "accepted" ELSE "again"]
  /\ UNCHANGED <<call, remoteVars, classifyVars, codecVars>>

\* createBlocklistEntry builds the link of the entry from the id, the one
\* entered or the one bugzilla.create returned; the bug tracker may also have
\* refused the id before (getComments, update), which ends the workflow
BugEntry ==
  /\ wf.name = "bugid"
  /\ wf.pc = "accepted"
  /\ \E known \in BOOLEAN :
       IF wf.idtext # <<>> /\ ~known
         THEN wf' = [wf EXCEPT !.pc = "raised"]
         ELSE LET bug == IF wf.idtext = <<>> THEN <<"2", "0", "1">> ELSE wf.idtext
              IN wf' = [wf EXCEPT !.idtext = bug, !.link = BugLink \o bug, !.pc = "stored"]
  /\ UNCHANGED <<call, remoteVars, classifyVars, codecVars>>

\* signBlocklist reads the id back: entry.details.bug.match(/id=(\d+)/)[1],
\* a TypeError when there is no match
BugMatch ==
  /\ wf.name = "bugid"
  /\ wf.pc = "stored"
  /\ LET m == matchBugId(wf.link) IN
       wf' = [wf EXCEPT !.matched = m, !.pc = IF m = <<>> THEN "nomatch" ELSE "matched"]
  /\ UNCHANGED <<call, remoteVars, classifyVars, codecVars>>

NextBugId ==
  \/ BugPrompt
  \/ BugEntry
  \/ BugMatch

SpecBugId == InitBugId /\ [][NextBugId]_vars

-----------------------------------------------------------------------------
(* BlocklistKintoClient.httpRequest *)

\* the Authorization headers: one that is stored when the client is made, and
\* the one the login hands out
OldHeader == "Bearer old"
FreshHeader == "Bearer fresh"

\* options.auth: none given (the constructor's { get, set }), or a store with
\* get, set and remove
AuthKinds == {"default", "store"}

\* auth.get(): the constructor's default returns undefined
authGet(h) == IF h.kind = "default" THEN "none" ELSE h.stored

\* auth.set(header): the constructor's default keeps nothing
authSet(h, header) == IF h.kind = "default" THEN h.stored ELSE header

InitHttp ==
  /\ status = "signed"
  /\ statusWrites = <<>>
  /\ records = <<>>
  /\ bugs = <<>>
  /\ amo = <<>>
  /\ otherChanges = 0
  /\ \E kind \in AuthKinds, stored \in {"none", OldHeader} :
       /\ kind = "default" => stored = "none"
       /\ wf = [NoCommand EXCEPT !.name = "httpRequest",
                                 !.http = [NoHttp EXCEPT !.kind = kind, !.stored = stored]]
  /\ call = NoCall
  /\ ClassifyIdle
  /\ CodecIdle

\* a method of the client that calls authorize() before its request
HttpAuthorized ==
  /\ wf.name = "httpRequest"
  /\ wf.http.pc \in {"idle", "returned", "raised"}
  /\ ~wf.http.authorized
  /\ wf.http.requests < MaxRequests
  /\ LET h == wf.http
         authHeader == authGet(h)
     IN wf' = [wf EXCEPT !.http =
                 IF authHeader # "none"
                   THEN [h EXCEPT !.headers = authHeader, !.authorized = TRUE]
                   ELSE [h EXCEPT !.headers = FreshHeader,
                                  !.stored = authSet(h, FreshHeader),
                                  !.authorized = TRUE, !.negotiated = TRUE]]
  /\ UNCHANGED <<call, remoteVars, classifyVars, codecVars>>

\* a request is made: it carries the headers of the client
HttpRequest ==
  /\ wf.name = "httpRequest"
  /\ wf.http.pc \in {"idle", "returned", "raised"}
  /\ wf.http.requests < MaxRequests
  /\ wf' = [wf EXCEPT !.http = [wf.http EXCEPT !.pc = "first",
                                               !.requestAuth = wf.http.headers,
                                               !.first = "none", !.error = "none",
                                               !.attempts = 0, !.cycles = 0,
                                               !.requests = wf.http.requests + 1]]
  /\ UNCHANGED <<call, remoteVars, classifyVars, codecVars>>

\* the first await origRequest(...): it answers, or it throws an error with
\* data.code 401, with another code, or without data (then e.data.code is a
\* TypeError, which leaves httpRequest as well)
HttpFirst ==
  /\ wf.name = "httpRequest"
  /\ wf.http.pc = "first"
  /\ \E result \in {"ok", "401", "500", "nodata"} :
       wf' = [wf EXCEPT !.http = [wf.http EXCEPT !.first = result,
                                                 !.attempts = 1,
                                                 !.error = CASE result = "500" -> "request"
                                                             [] result = "nodata" -> "TypeError"
                                                             [] OTHER -> "none",
                                                 !.pc = CASE result = "ok" -> "returned"
                                                          [] result = "401" -> "deauthorize"
                                                          [] OTHER -> "raised"]]
  /\ UNCHANGED <<call, remoteVars, classifyVars, codecVars>>

\* deauthorize(): await this.auth.remove(), which the constructor's default
\* does not have (a TypeError), then this.authorized = false
HttpDeauthorize ==
  /\ wf.name = "httpRequest"
  /\ wf.http.pc = "deauthorize"
  /\ wf' = [wf EXCEPT !.http =
              IF wf.http.kind = "default"
                THEN [wf.http EXCEPT !.pc = "raised", !.error = "TypeError"]
                ELSE [wf.http EXCEPT !.stored = "none", !.authorized = FALSE,
                                     !.pc = "authorize"]]
  /\ UNCHANGED <<call, remoteVars, classifyVars, codecVars>>

\* authorize(): nothing when already authorized; requiresVPN() may throw; a
\* stored header is taken, otherwise the login hands out a header, which is
\* set on the client and stored
HttpAuthorize ==
  /\ wf.name = "httpRequest"
  /\ wf.http.pc = "authorize"
  /\ \E vpn \in BOOLEAN :
       LET h == wf.http
           authHeader == authGet(h)
       IN wf' = [wf EXCEPT !.http =
                   IF h.authorized
                     THEN [h EXCEPT !.pc = "retry", !.cycles = h.cycles + 1]
                     ELSE IF ~vpn
                       THEN [h EXCEPT !.pc = "raised", !.error = "requiresVPN"]
                       ELSE IF authHeader # "none"
                         THEN [h EXCEPT !.headers = authHeader, !.authorized = TRUE,
                                        !.pc = "retry", !.cycles = h.cycles + 1]
                         ELSE [h EXCEPT !.headers = FreshHeader,
                                        !.stored = authSet(h, FreshHeader),
                                        !.authorized = TRUE, !.negotiated = TRUE,
                                        !.pc = "retry", !.cycles = h.cycles + 1]]
  /\ UNCHANGED <<call, remoteVars, classifyVars, codecVars>>

\* request.headers.Authorization = await this.auth.get(), and the second
\* await origRequest(...), outside the try: what it throws leaves httpRequest
HttpRetry ==
  /\ wf.name = "httpRequest"
  /\ wf.http.pc = "retry"
  /\ \E result \in {"ok", "401", "500"} :
       wf' = [wf EXCEPT !.http = [wf.http EXCEPT !.requestAuth = authGet(wf.http),
                                                 !.attempts = 2,
                                                 !.error = IF result = "ok" THEN "none"
                                                                            ELSE "request",
                                                 !.pc = IF result = "ok" THEN "returned"
                                                                         ELSE "raised"]]
  /\ UNCHANGED <<call, remoteVars, classifyVars, codecVars>>

NextHttp ==
  \/ HttpAuthorized
  \/ HttpRequest
  \/ HttpFirst
  \/ HttpDeauthorize
  \/ HttpAuthorize
  \/ HttpRetry

SpecHttp == InitHttp /\ [][NextHttp]_vars

-----------------------------------------------------------------------------
(* The transitions of the kinto client, one call after the other *)

InitTransitions ==
  /\ status \in Labels
  /\ statusWrites = <<>>
  /\ records = <<>>
  /\ bugs = <<>>
  /\ amo = <<>>
  /\ otherChanges = 0
  /\ wf = [NoCommand EXCEPT !.name = "transitions"]
  /\ call = NoCall
  /\ ClassifyIdle
  /\ CodecIdle

\* the next call of reviewBlocklist(), signBlocklist() or rejectBlocklist(),
\* once the one before it has returned or thrown
Transition ==
  /\ wf.name = "transitions"
  /\ wf.ops < MaxOps
  /\ call.stage \in {"none", "returned", "raised"}
  /\ \E op \in {"review", "sign", "reject"} :
       call' = StartCall(op, "kinto")
  /\ wf' = [wf EXCEPT !.ops = wf.ops + 1]
  /\ UNCHANGED <<remoteVars, classifyVars, codecVars>>

NextTransitions ==
  \/ Transition
  \/ EnsureBlocklistState
  \/ UpdateCollectionStatus

SpecTransitions == InitTransitions /\ [][NextTransitions]_vars

-----------------------------------------------------------------------------
(* Properties of readGuidData *)

\* what a line holds between its first and its last non-whitespace character
NonWhite(line) == {i \in 1..Len(line) : ~IsWhitespace(line[i])}

First(S) == CHOOSE i \in S : \A j \in S : i <= j

Last(S) == CHOOSE i \in S : \A j \in S : j <= i

IsBlankOrComment(line) ==
  NonWhite(line) = {} \/ line[First(NonWhite(line))] = "#"

Candidate(line) == SubSeq(line, First(NonWhite(line)), Last(NonWhite(line)))

\* the candidates that survive trimming and the blank/comment filter
Survivors == {Candidate(lines[i]) : i \in {j \in 1..Len(lines) : ~IsBlankOrComment(lines[j])}}

\* the regex entries (by place in the index) that match a candidate
Matching(g) == {j \in 1..Len(regexes) : g \in regexes[j].re.accepts}

RECURSIVE KeepLines(_, _)
KeepLines(ls, i) ==
  IF i > Len(ls) THEN <<>>
  ELSE (IF IsBlankOrComment(ls[i]) THEN <<>> ELSE <<ls[i]>>) \o KeepLines(ls, i + 1)

\* C1: after readGuidData every surviving candidate is in exactly one of
\* `existing` (as a key) and `newguids`: the two are disjoint and together
\* they are exactly the surviving trimmed candidates.
C1_Partition ==
  rpc = "done" =>
    /\ MapKeys(existing) \cap Range(newguids) = {}
    /\ MapKeys(existing) \cup Range(newguids) = Survivors

C1_Witness ==
  /\ rpc = "done"
  /\ existing # <<>>
  /\ newguids # <<>>
  /\ \E i \in 1..Len(lines) : IsBlankOrComment(lines[i])

\* C2: a candidate that is a key of the exact-guid map and is also matched by
\* regex entries is recorded under the exact entry, never under a regex entry,
\* and a warning about the overlap names the matching regex entries.
C2_ExactWins ==
  rpc = "done" =>
    \A g \in Survivors :
      (MapHas(guids, g) /\ Matching(g) # {}) =>
        /\ MapHas(existing, g)
        /\ MapGet(existing, g) = MapGet(guids, g)
        /\ \A j \in 1..Len(regexes) : MapGet(existing, g) # regexes[j].entry
        /\ \E k \in 1..Len(warnings) :
             /\ warnings[k].kind = "single and regex"
             /\ warnings[k].guid = g
             /\ Range(warnings[k].regexmatches) = Matching(g)

C2_Witness ==
  /\ rpc = "done"
  /\ \E g \in Survivors : MapHas(guids, g) /\ Cardinality(Matching(g)) > 1

\* C3: a candidate that matches no exact guid and more than one regex entry is
\* recorded under the regex entry that comes first in the index, a warning names
\* all the matching entries, and the call still returns its classification.
C3_FirstRegexWins ==
  rpc = "done" =>
    \A g \in Survivors :
      (~MapHas(guids, g) /\ Cardinality(Matching(g)) > 1) =>
        /\ MapHas(existing, g)
        /\ MapGet(existing, g) = regexes[First(Matching(g))].entry
        /\ g \notin Range(newguids)
        /\ \E k \in 1..Len(warnings) :
             /\ warnings[k].kind = "more than one regex"
             /\ warnings[k].guid = g
             /\ Range(warnings[k].regexmatches) = Matching(g)

C3_Witness ==
  /\ rpc = "done"
  /\ \E g \in Survivors :
       /\ ~MapHas(guids, g)
       /\ Cardinality(Matching(g)) > 1
       /\ regexes[First(Matching(g))].entry # regexes[Last(Matching(g))].entry

\* C4: a line that is empty after trimming, or whose trimmed text starts with #,
\* is in neither result, and the result is the one the other lines alone give.
C4_SkippedLines ==
  rpc = "done" =>
    /\ \A k \in MapKeys(existing) \cup Range(newguids) : k # <<>> /\ k[1] # "#"
    /\ [existing |-> existing, newguids |-> newguids, warnings |-> warnings]
         = readGuidData(KeepLines(lines, 1), guids, regexes)

C4_Witness ==
  /\ rpc = "done"
  /\ \E i, j, k \in 1..Len(lines) :
       /\ NonWhite(lines[i]) = {}
       /\ NonWhite(lines[j]) # {} /\ IsBlankOrComment(lines[j])
       /\ ~IsBlankOrComment(lines[k])

-----------------------------------------------------------------------------
(* Properties of the state guard and of the create workflow *)

\* C5: ensureBlocklistState(allowed) raises if and only if the label it reads
\* from the staging collection is not in `allowed`, and whether it raises or
\* returns, the step writes nothing: the label, the records and the log of
\* status writes are as before.
C5_EnsureRaisesIffNotAllowed ==
  [][ (call.stage = "ensure" /\ call'.stage # "ensure") =>
        /\ call'.seen = status
        /\ call'.statii = call.statii
        /\ (call'.stage = "raised") <=> (status \notin call.statii)
        /\ status' = status
        /\ records' = records
        /\ statusWrites' = statusWrites ]_vars

\* a direct ensureBlocklistState({"signed"}) raised on a collection in to-sign
C5_Witness ==
  /\ wf.name = "ensure"
  /\ call.op = "ensure"
  /\ call.statii = {"signed"}
  /\ call.seen = "to-sign"
  /\ call.stage = "raised"

\* the label each transition asserts, and the label each writes
AssertedBy(op) ==
  CASE op = "review" -> "work-in-progress"
    [] op = "sign" -> "to-review"
    [] op = "reject" -> "to-review"

WrittenBy(op) ==
  CASE op = "review" -> "to-review"
    [] op = "sign" -> "to-sign"
    [] op = "reject" -> "work-in-progress"

\* C6: reviewBlocklist, signBlocklist and rejectBlocklist first assert that
\* the label is work-in-progress, to-review and to-review; only a call whose
\* assertion succeeded writes, and it writes to-review, to-sign and
\* work-in-progress; a call whose assertion failed raises, and no step of it
\* changes the label or adds a status write.
C6_TransitionsAssertThenWrite ==
  [][ (call.op \in {"review", "sign", "reject"}) =>
        /\ (call.stage = "ensure" /\ call' # call) =>
             /\ call'.seen = status
             /\ (call'.stage = "update") <=> (status = AssertedBy(call.op))
             /\ (call'.stage = "raised") <=> (status # AssertedBy(call.op))
             /\ statusWrites' = statusWrites
        /\ (call.stage = "update" /\ call' # call) =>
             /\ call.seen = AssertedBy(call.op)
             /\ status' = WrittenBy(call.op)
             /\ statusWrites' = Append(statusWrites,
                                       [client |-> call.client,
                                        status |-> WrittenBy(call.op),
                                        replaced |-> status])
             /\ call'.stage = "returned"
        /\ (call.stage # "update") =>
             /\ statusWrites' = statusWrites
             /\ (otherChanges' = otherChanges => status' = status) ]_vars

\* the operator's client requested review, somebody put the collection back
\* to work-in-progress, and signBlocklist raised without writing
C6_Witness ==
  /\ statusWrites = <<[client |-> "kinto", status |-> "to-review",
                       replaced |-> "work-in-progress"]>>
  /\ call.op = "sign"
  /\ call.seen = "work-in-progress"
  /\ call.stage = "raised"
  /\ status = "work-in-progress"

\* the labels the create workflow is specified to admit
CreateAdmits(canContinue) ==
  IF canContinue THEN {"signed", "work-in-progress", "to-review"} ELSE {"signed"}

\* C7: the create workflow asserts the label against exactly {signed}, and
\* against {signed, work-in-progress, to-review} when canContinue is passed;
\* it goes on exactly when the label it read is one of these, and aborts
\* with the state error in any other state.
C7_CreateAssertsState ==
  (wf.name = "create") =>
    /\ (wf.pc = "ensure") =>
         (call.op = "ensure" /\ call.statii = CreateAdmits(wf.canContinue))
    /\ (wf.pc = "aborted") =>
         (call.stage = "raised" /\ wf.asserted = call.seen
            /\ wf.asserted \notin CreateAdmits(wf.canContinue))
    /\ (wf.pc \notin {"ensure", "aborted"}) =>
         (wf.asserted \in CreateAdmits(wf.canContinue))

\* with canContinue, a collection in to-review was admitted and the workflow
\* went on to its writes
C7_Witness ==
  /\ wf.name = "create"
  /\ wf.canContinue
  /\ wf.asserted = "to-review"
  /\ wf.pc = "entries"

\* C8: in the create workflow the assertion comes strictly before any write:
\* until it has succeeded, and for good when it failed, no bug was created or
\* updated, no entry was created and nothing was banned or disabled, and no
\* step of the workflow sends such a request.
C8_AssertionBeforeWrites ==
  [][ (wf.name = "create" /\ wf.pc \in {"ensure", "aborted"}) =>
        /\ bugs = <<>> /\ records = <<>> /\ amo = <<>>
        /\ bugs' = <<>> /\ records' = <<>> /\ amo' = <<>> ]_vars

\* the create workflow aborted on a collection in to-sign and the process is
\* gone
C8_Witness ==
  /\ wf.name = "create"
  /\ wf.pc = "aborted"
  /\ wf.asserted = "to-sign"
  /\ wf.exited
  /\ bugs = <<>> /\ records = <<>> /\ amo = <<>>

\* the create workflow is past its loop over the blocks
PastEntries ==
  /\ wf.name = "create"
  /\ wf.answer = "y"
  /\ wf.next > 1
  /\ wf.pc \notin {"entries"}

C17_VersionRangeOnlyForOneGuid ==
  (wf.name = "create") =>
    /\ wf.minVersion # "" /\ wf.maxVersion # ""
    /\ Len(wf.guids) > 1 =>
         /\ wf.minVersion = "0" /\ wf.maxVersion = "*"
         /\ \A k \in 1..Len(records) :
              records[k].minVersion = "0" /\ records[k].maxVersion = "*"
    /\ \A k \in 1..Len(records) :
         /\ records[k].minVersion = wf.minVersion
         /\ records[k].maxVersion = wf.maxVersion
         /\ (records[k].minVersion # "0" \/ records[k].maxVersion # "*")
              => Len(wf.guids) = 1

\* one guid, a minimum version entered and the maximum left empty
C17_Witness ==
  /\ wf.name = "create"
  /\ Len(wf.guids) = 1
  /\ Len(records) = 1
  /\ records[1].minVersion = "1.0"
  /\ records[1].maxVersion = "*"

\* a block has the documented shape: /^(( in front and ))$/ behind
HasBlockShape(block) ==
  /\ Len(block) >= 8
  /\ SubSeq(block, 1, 4) = <<"/", "^", "(", "(">>
  /\ SubSeq(block, Len(block) - 3, Len(block)) = <<")", ")", "$", "/">>

\* the guids a block lists: what stands between the wrappers, cut at )|( ;
\* an empty body lists none
BlockGuids(block) ==
  LET body == SubSeq(block, 5, Len(block) - 4) IN
  IF body = <<>> THEN <<>> ELSE split(body)

\* the guids one creation request names: the ones its block lists, or the guid
\* itself when the request is for a single guid
Listed(guid) == IF HasBlockShape(guid) THEN Range(BlockGuids(guid)) ELSE {guid}

Named(gs) == gs \cup {regexEscape(g) : g \in gs}

\* C18: in a run that began with the check, only guids the run classified as
\* new are handed to createBlocklistEntryInteractively and to
\* createGuidStrings, and none of them was classified as existing; the
\* creation requests name only such guids.
C18_OnlyNewGuidsCreated ==
  wf.checked =>
    /\ Range(wf.guids) \subseteq Range(newguids)
    /\ Range(wf.guids) \cap MapKeys(existing) = {}
    /\ Range(glist) \subseteq Range(newguids)
    /\ Range(glist) \cap MapKeys(existing) = {}
    /\ \A n \in 1..Len(records) :
         /\ Listed(records[n].guid) \subseteq Named(Range(newguids))
         /\ Listed(records[n].guid) \cap Named(MapKeys(existing)) = {}

\* a run that found one guid blocked and one new, and created an entry for
\* the new one
C18_Witness ==
  /\ wf.checked
  /\ existing # <<>>
  /\ Len(newguids) >= 1
  /\ Len(records) >= 1
  /\ Listed(records[1].guid) \subseteq Range(newguids)

\* the source of the regular expression an entry of the snapshot stands for,
\* <<>> for an entry with a literal guid
SourceOf(guid) ==
  IF guid[1] = "/" THEN SubSeq(guid, 2, Len(guid) - 1)
  ELSE IF guid[1] = "^" THEN guid
  ELSE <<>>

\* C19: a pattern of the snapshot that does not compile does not abort
\* loadBlocklist: once the load is over the command goes on, every entry with
\* a literal guid is in the map of guids and every pattern that compiles is in
\* the map of regexes.
C19_MalformedPatternSkipped ==
  (wf.name = "check" /\ wf.pc # "load") =>
    /\ wf.pc # "raised"
    /\ \A n \in 1..Len(wf.snapshot) :
         LET guid == wf.snapshot[n].guid IN
         IF SourceOf(guid) = <<>>
           THEN guid \in MapKeys(guids)
           ELSE RegExpThrows(SourceOf(guid)) \/
                \E r \in 1..Len(regexes) : regexes[r].re.source = SourceOf(guid)

\* the snapshot holds a pattern with an unclosed group next to a literal guid
\* and a pattern that compiles: the load threw and nothing was indexed
C19_Witness ==
  /\ wf.name = "check"
  /\ wf.pc = "raised"
  /\ \E n \in 1..Len(wf.snapshot) : RegExpThrows(SourceOf(wf.snapshot[n].guid))
  /\ \E n \in 1..Len(wf.snapshot) : SourceOf(wf.snapshot[n].guid) = <<>>
  /\ guids = <<>>
  /\ regexes = <<>>

\* C20: an assertion starts with no label at hand, and the label it decides on
\* is the one the collection has at the moment it is read: after another
\* operator's change the next assertion of the same run sees the new label,
\* not the one an earlier assertion of the run saw.
C20_LabelReadAtEachAssertion ==
  [][ /\ (call' # call /\ call'.stage = "ensure") => call'.seen = "none"
      /\ (call.stage = "ensure" /\ call' # call) =>
           /\ call.seen = "none"
           /\ call'.seen = status
           /\ (wf.asserted # "none" /\ wf.asserted # status) =>
                /\ call'.seen # wf.asserted
                /\ call'.stage = ensureOutcome(call, status) ]_vars

\* the create workflow asserted on a signed collection, another operator
\* moved it to work-in-progress, and the review of selfsign saw that label
C20_Witness ==
  /\ wf.name = "create"
  /\ wf.asserted = "signed"
  /\ records # <<>>
  /\ call.op = "review"
  /\ call.seen = "work-in-progress"
  /\ call.stage = "update"

\* C23: with other operators changing the label at any moment, the label a
\* transition writes replaces the label its assertion saw: when the write is
\* made the collection still has that label.
C23_WriteReplacesAssertedLabel ==
  [][ (Len(statusWrites') > Len(statusWrites)) =>
        /\ status = call.seen
        /\ statusWrites'[Len(statusWrites')].replaced = call.seen ]_vars

\* reviewBlocklist saw work-in-progress, another operator's change made the
\* collection signed, and the write of to-review replaced signed
C23_Witness ==
  /\ call.op = "review"
  /\ call.stage = "returned"
  /\ call.seen = "work-in-progress"
  /\ statusWrites # <<>>
  /\ statusWrites[Len(statusWrites)].status = "to-review"
  /\ statusWrites[Len(statusWrites)].replaced = "signed"

\* C24: when reviewAndSignBlocklist calls signBlocklist after the answer y, it
\* does not pass selfsign and selfreview together with a pending list, the
\* combination signBlocklist throws on; a self-sign with entries in the
\* preview goes on to the requests.
C24_SignParamsAccepted ==
  (wf.name = "reviewAndSignBlocklist" /\ wf.answer = "y") =>
    /\ ~(wf.selfsign /\ wf.selfreview /\ wf.hasPending)
    /\ (wf.pc = "raised" => call.stage = "raised")

\* self-sign with entries in the preview: signBlocklist threw before any
\* request to kinto
C24_Witness ==
  /\ wf.name = "reviewAndSignBlocklist"
  /\ wf.selfsign
  /\ wf.hasPending
  /\ wf.answer = "y"
  /\ wf.pc = "raised"
  /\ call = NoCall
  /\ statusWrites = <<>>
  /\ bugs = <<>>

IsResolve(request) == request.status = "RESOLVED"

\* C25: with selfsign and selfreview, signBlocklist sends the review with the
\* operator's client and only after it returned the signing with the
\* approver's client; the approver's client sends nothing else and nothing
\* before; when the review throws, the workflow is over with that error,
\* without a signing request and without a bug update by signBlocklist.
C25_ReviewThenApproverSign ==
  [][ (wf.name \in SignCallers /\ wf.selfsign /\ wf.selfreview) =>
        /\ (call'.client = "kintoapprover" /\ call.client # "kintoapprover") =>
             /\ call.op = "review"
             /\ call.client = "kinto"
             /\ call.stage = "returned"
             /\ call.seen = "work-in-progress"
             /\ statusWrites # <<>>
             /\ statusWrites[Len(statusWrites)] =
                  [client |-> "kinto", status |-> "to-review", replaced |->
                     statusWrites[Len(statusWrites)].replaced]
             /\ call'.op = "sign"
             /\ call'.statii = {"to-review"}
             /\ call'.target = "to-sign"
        /\ (wf.pc = "review" /\ call.stage = "raised") =>
             /\ wf'.pc \in {"review", "raised"}
             /\ call' = call
             /\ bugs' = bugs
             /\ statusWrites' = statusWrites
        /\ (Len(bugs') > Len(bugs) /\ IsResolve(bugs'[Len(bugs')])) =>
             /\ Len(statusWrites) >= 2
             /\ statusWrites[Len(statusWrites) - 1].client = "kinto"
             /\ statusWrites[Len(statusWrites) - 1].status = "to-review"
             /\ statusWrites[Len(statusWrites)].client = "kintoapprover"
             /\ statusWrites[Len(statusWrites)].status = "to-sign" ]_vars

\* create with selfsign: the review was written by the operator's client, the
\* signing by the approver's, and the bug was resolved
C25_Witness ==
  /\ wf.name = "create"
  /\ wf.selfsign
  /\ wf.selfreview
  /\ Len(statusWrites) = 2
  /\ statusWrites[1].client = "kinto"
  /\ statusWrites[1].status = "to-review"
  /\ statusWrites[2].client = "kintoapprover"
  /\ statusWrites[2].status = "to-sign"
  /\ Len(bugs) = 2
  /\ IsResolve(bugs[2])

\* C26: the sign workflow sends the RESOLVED/FIXED update only when the
\* signing request has returned after its write of to-sign, the update names
\* only bugs of entries of res that are not deleted and have a bug, all of
\* them, and each bug once.
C26_BugsResolvedAfterSigning ==
  [][ (Len(bugs') > Len(bugs) /\ IsResolve(bugs'[Len(bugs')])) =>
        /\ wf.name \in SignCallers
        /\ wf.pc = "sign"
        /\ call.op = "sign"
        /\ call.stage = "returned"
        /\ statusWrites # <<>>
        /\ statusWrites[Len(statusWrites)].status = "to-sign"
        /\ statusWrites[Len(statusWrites)].client = call.client
        /\ \A b \in Len(bugs) + 1..Len(bugs') :
             LET ids == bugs'[b].ids IN
             /\ bugs'[b].resolution = "FIXED"
             /\ \A i \in 1..Len(ids) :
                  /\ ids[i] # ""
                  /\ \E n \in 1..Len(wf.res) : wf.res[n].bug = ids[i] /\ ~wf.res[n].deleted
                  /\ \A k \in 1..Len(ids) : ids[k] = ids[i] => k = i
             /\ \A n \in 1..Len(wf.res) :
                  (~wf.res[n].deleted /\ wf.res[n].bug # "") =>
                    \E i \in 1..Len(ids) : ids[i] = wf.res[n].bug ]_vars

\* the sign command took the entries of the preview, two of them with the
\* same bug, one without a bug and one deleted: one update for bug 101
C26_Witness ==
  /\ wf.name = "reviewAndSignBlocklist"
  /\ Len(wf.res) = 4
  /\ Len(bugs) = 1
  /\ IsResolve(bugs[1])
  /\ bugs[1].ids = <<"101">>
  /\ statusWrites # <<>>

\* C27: the review command sends the needinfo update only when
\* kinto.reviewBlocklist() has returned after its write of to-review in this
\* run; without entries in progress or without the answer y it sends nothing
\* to kinto and nothing to the bug tracker.
C27_NeedinfoAfterReview ==
  [][ wf'.name = "reviewBlocklist" =>
        /\ (bugs' # bugs) =>
             /\ call.op = "review"
             /\ call.stage = "returned"
             /\ statusWrites # <<>>
             /\ statusWrites[Len(statusWrites)].status = "to-review"
             /\ statusWrites[Len(statusWrites)].client = "kinto"
             /\ wf.answer = "y"
             /\ Len(wf.pending) > 0
        /\ (Len(wf'.pending) = 0 \/ wf'.answer # "y") =>
             /\ statusWrites' = <<>>
             /\ bugs' = <<>>
             /\ call' = NoCall ]_vars

\* the review command wrote to-review and asked the reviewer about the bugs
\* that had no request yet
C27_Witness ==
  /\ wf.name = "reviewBlocklist"
  /\ wf.pc = "returned"
  /\ Len(wf.pending) = 4
  /\ Len(statusWrites) = 1
  /\ statusWrites[1].status = "to-review"
  /\ Len(bugs) = 1
  /\ bugs[1].request = "needinfo"
  /\ bugs[1].ids = <<"101", "102">>

\* C28: in the create workflow nothing is written without the answer y: no
\* bug, no entry, no ban and no disabling; with the answer y the bug is
\* updated or created before the first entry is created, and every entry
\* carries the id of that bug.
C28_BugBeforeEntries ==
  wf.name = "create" =>
    /\ wf.answer # "y" =>
         (bugs = <<>> /\ records = <<>> /\ amo = <<>> /\ statusWrites = <<>>)
    /\ records # <<>> =>
         /\ bugs # <<>>
         /\ bugs[1].request \in {"update", "create"}
         /\ bugs[1].ids = {wf.bugid}
         /\ wf.bugid # ""
         /\ \A n \in 1..Len(records) : records[n].bug = wf.bugid
    /\ amo # <<>> => records # <<>>

\* no bug id entered: a bug was created and the two entries carry its id
C28_Witness ==
  /\ wf.name = "create"
  /\ wf.answer = "y"
  /\ Len(records) = 2
  /\ bugs[1].request = "create"
  /\ records[1].bug = CreatedBugId
  /\ records[2].bug = CreatedBugId

-----------------------------------------------------------------------------
(* Properties of the transitions *)

Edges ==
  { <<"work-in-progress", "to-review">>, <<"to-review", "to-sign">>,
    <<"to-review", "work-in-progress">> }

\* C21: with the tool's review, sign and reject calls one after the other and
\* nobody else at the collection, every label written is to-review, to-sign or
\* work-in-progress and replaces the label at the other end of one of the
\* three edges; signed is never written, and a call that finds the collection
\* signed or in to-sign throws and leaves the label as it was.
C21_WritesFollowEdges ==
  /\ \A n \in 1..Len(statusWrites) :
       /\ statusWrites[n].status \in {"to-review", "to-sign", "work-in-progress"}
       /\ <<statusWrites[n].replaced, statusWrites[n].status>> \in Edges
  /\ (call.stage \notin {"none", "ensure"} /\ call.seen \in {"signed", "to-sign"}) =>
       /\ call.stage = "raised"
       /\ status = call.seen
  /\ status = "signed" =>
       (statusWrites = <<>> \/ statusWrites[Len(statusWrites)].status # status)

\* review, sign and reject in a row: two labels written, then reject throws on
\* the collection in to-sign
C21_Witness ==
  /\ wf.name = "transitions"
  /\ Len(statusWrites) = 2
  /\ statusWrites[1].status = "to-review"
  /\ statusWrites[2].status = "to-sign"
  /\ call.op = "reject"
  /\ call.stage = "raised"
  /\ status = "to-sign"

-----------------------------------------------------------------------------
(* Properties of the bug id *)

\* C29: every bug id the prompt loop accepts is read back unchanged from the
\* link of the entry: the match of id=(\d+) on the link exists and is the id
\* that was entered.
C29_BugIdReadBack ==
  (wf.name = "bugid" /\ wf.pc \in {"stored", "matched", "nomatch"}) =>
    /\ wf.pc # "nomatch"
    /\ matchBugId(wf.link) = wf.idtext

\* what does hold: an id of digits only is read back unchanged
C29_DigitsReadBack ==
  (wf.name = "bugid" /\ wf.pc \in {"matched", "nomatch"}
     /\ \A i \in 1..Len(wf.idtext) : wf.idtext[i] \in Digits) =>
    /\ wf.pc = "matched"
    /\ wf.matched = wf.idtext

\* 1a was typed and accepted, the link ends in id=1a, and the id read back
\* is 1
C29_Witness ==
  /\ wf.name = "bugid"
  /\ wf.pc = "matched"
  /\ wf.line = <<"1", "a">>
  /\ wf.idtext = <<"1", "a">>
  /\ wf.link = BugLink \o <<"1", "a">>
  /\ wf.matched = <<"1">>

-----------------------------------------------------------------------------
(* Properties of httpRequest *)

\* C30: when httpRequest is over, a first attempt that failed with 401 was
\* followed by one deauthorize and authorize and, unless authorize itself
\* threw, by one more attempt, which carried the header just stored; any
\* other request was attempted once, with no deauthorize and authorize; there
\* is never a third attempt.
C30_RetryOnceAfter401 ==
  (wf.name = "httpRequest" /\ wf.http.pc \in {"returned", "raised"}
     /\ wf.http.attempts > 0) =>
    /\ wf.http.attempts <= 2
    /\ IF wf.http.first = "401"
         THEN \/ wf.http.pc = "raised" /\ wf.http.attempts = 1 /\ wf.http.cycles = 0
                 /\ wf.http.error = "requiresVPN"
              \/ /\ wf.http.attempts = 2
                 /\ wf.http.cycles = 1
                 /\ wf.http.stored # "none"
                 /\ wf.http.requestAuth = wf.http.stored
         ELSE wf.http.attempts = 1 /\ wf.http.cycles = 0

\* what does hold: with a store that has get, set and remove the claim is met
C30_RetryOnceWithStore ==
  (wf.name = "httpRequest" /\ wf.http.pc \in {"returned", "raised"}
     /\ wf.http.attempts > 0 /\ wf.http.kind = "store") =>
    /\ wf.http.attempts <= 2
    /\ IF wf.http.first = "401"
         THEN \/ wf.http.pc = "raised" /\ wf.http.attempts = 1 /\ wf.http.cycles = 0
                 /\ wf.http.error = "requiresVPN"
              \/ /\ wf.http.attempts = 2
                 /\ wf.http.cycles = 1
                 /\ wf.http.stored = FreshHeader
                 /\ wf.http.requestAuth = FreshHeader
         ELSE wf.http.attempts = 1 /\ wf.http.cycles = 0

\* a client made without options.auth got a 401: deauthorize threw, and the
\* request was neither authorized anew nor sent again
C30_Witness ==
  /\ wf.name = "httpRequest"
  /\ wf.http.kind = "default"
  /\ wf.http.first = "401"
  /\ wf.http.pc = "raised"
  /\ wf.http.attempts = 1
  /\ wf.http.cycles = 0
  /\ wf.http.error = "TypeError"

-----------------------------------------------------------------------------
(* Properties of the codec *)

\* the length regexEscape gives a guid: one more for every escaped character
EscapedLen(g) == Len(g) + Cardinality({i \in 1..Len(g) : g[i] \in EscapedChars})

RECURSIVE SumEscaped(_, _)
SumEscaped(gs, perGuid) ==
  IF gs = <<>> THEN 0 ELSE EscapedLen(Head(gs)) + perGuid + SumEscaped(Tail(gs), perGuid)

\* the same sum over the unescaped lengths, which is never more
RECURSIVE SumLen(_, _)
SumLen(gs, perGuid) ==
  IF gs = <<>> THEN 0 ELSE Len(Head(gs)) + perGuid + SumLen(Tail(gs), perGuid)

\* EscapedLen(g) > n, settled by Len(g) <= EscapedLen(g) <= 2 * Len(g) where
\* that is enough
EscapesOver(g, n) ==
  IF Len(g) > n THEN TRUE
  ELSE IF 2 * Len(g) <= n THEN FALSE
  ELSE EscapedLen(g) > n

\* the guids of a list without repetitions, in order of first occurrence
FirstSeen(gs) ==
  LET keep == {i \in 1..Len(gs) : \A j \in 1..(i - 1) : gs[j] # gs[i]}
      nth(k) == CHOOSE i \in keep : Cardinality({j \in keep : j <= i}) = k
  IN [k \in 1..Cardinality(keep) |-> gs[nth(k)]]

\* a guid made of the characters an id may have in a block: alphanumerics,
\* _, space, ., {, }, @ and -
PlainIdChars == IdChars \ {"\\"}

IsPlainId(g) == g # <<>> /\ \A i \in 1..Len(g) : g[i] \in PlainIdChars

\* C9 as stated: for two or more guids whose total escaped length is below the
\* maximum block length, expanding the first block gives the guids de-duplicated
\* in first-seen order.
C9_RoundTripAnyGuids ==
  (/\ kpc = "expanded"
   /\ expandArg = blocks[1]
   /\ Len(glist) >= 2
   /\ SumEscaped(glist, 0) < REGEX_BLOCK_MAXLEN)
    => expanded = FirstSeen(glist)

\* C9, amended: for two or more guids, each made only of id characters
\* (alphanumerics, _, space, ., {, }, @, -), whose escaped lengths plus the
\* delimiter length per guid sum to at most the maximum block length, there is
\* one block and expanding it gives the guids de-duplicated in first-seen order.
C9_RoundTrip ==
  (/\ kpc = "expanded"
   /\ Len(glist) >= 2
   /\ SumLen(glist, Len(REGEX_BLOCK_DELIM)) <= REGEX_BLOCK_MAXLEN
   /\ \A i \in 1..Len(glist) : IsPlainId(glist[i])
   /\ SumEscaped(glist, Len(REGEX_BLOCK_DELIM)) <= REGEX_BLOCK_MAXLEN)
    => /\ Len(blocks) = 1
       /\ expandArg = blocks[1]
       /\ expanded = FirstSeen(glist)

C9_Witness ==
  /\ kpc = "expanded"
  /\ Len(glist) >= 2
  /\ \A i \in 1..Len(glist) : IsPlainId(glist[i])
  /\ SumEscaped(glist, Len(REGEX_BLOCK_DELIM)) <= REGEX_BLOCK_MAXLEN
  /\ \E i \in 1..Len(glist) : EscapedLen(glist[i]) > Len(glist[i])
  /\ Len(expanded) >= 2
  /\ Len(expanded) < Len(glist)

\* C10 as stated: for a single guid g, createGuidStrings returns [g] unchanged
\* and expandGuidRegex(g) returns [g].
C10_SingleGuidAnyGuid ==
  Len(glist) = 1 =>
    /\ kpc \in {"compiled", "expanded"} => blocks = <<glist[1]>>
    /\ kpc = "expanded" => expanded = <<glist[1]>>

\* C10, amended: for a single guid g, createGuidStrings returns [g] unchanged
\* (no escaping, no wrapper), and expandGuidRegex(g) returns [g] when g does not
\* start with "/".
C10_SingleGuid ==
  Len(glist) = 1 =>
    /\ kpc \in {"compiled", "expanded"} => blocks = <<glist[1]>>
    /\ (kpc = "expanded" /\ glist[1][1] # "/") => expanded = <<glist[1]>>

C10_Witness ==
  /\ kpc = "expanded"
  /\ Len(glist) = 1
  /\ EscapedLen(glist[1]) > Len(glist[1])
  /\ expanded = <<glist[1]>>

\* the guids of the blocks b, b+1, ... one after the other
RECURSIVE GuidsFrom(_, _)
GuidsFrom(bs, b) ==
  IF b > Len(bs) THEN <<>> ELSE BlockGuids(bs[b]) \o GuidsFrom(bs, b + 1)

\* C11: for two or more guids every string createGuidStrings returns has the
\* shape /^(( ... ))$/ and, read block after block and cut at )|(, the blocks
\* list exactly the regex-escaped input guids in input order: none dropped,
\* duplicated, reordered or split.
C11_BlocksListEscapedGuids ==
  (kpc = "compiled" /\ Len(glist) >= 2) =>
    /\ \A b \in 1..Len(blocks) : HasBlockShape(blocks[b])
    /\ GuidsFrom(blocks, 1) = [i \in 1..Len(glist) |-> regexEscape(glist[i])]

\* three guids in two blocks, one of them with an escaped character
C11_Witness ==
  /\ kpc = "compiled"
  /\ Len(glist) = 3
  /\ Len(blocks) = 2
  /\ \E i \in 1..3 : EscapedLen(glist[i]) > Len(glist[i])
  /\ Len(BlockGuids(blocks[1])) + Len(BlockGuids(blocks[2])) = 3

\* C12 as stated: every string createGuidStrings returns is at most
\* REGEX_BLOCK_MAXLEN characters long, wrappers and delimiters included, unless
\* it holds exactly one guid.
C12_BlockLengthBound ==
  (kpc = "compiled" /\ Len(glist) >= 2) =>
    \A b \in 1..Len(blocks) :
      Len(blocks[b]) <= REGEX_BLOCK_MAXLEN \/ Len(BlockGuids(blocks[b])) = 1

\* what the loop does bound: the escaped guids of a block with more than one
\* guid, with one delimiter length each, come to at most REGEX_BLOCK_MAXLEN,
\* which is the length of the string less 5
C12_CountedLengthBound ==
  (kpc = "compiled" /\ Len(glist) >= 2) =>
    \A b \in 1..Len(blocks) :
      \/ Len(blocks[b]) - (Len(REGEX_BLOCK_START) + Len(REGEX_BLOCK_END))
           + Len(REGEX_BLOCK_DELIM) <= REGEX_BLOCK_MAXLEN
      \/ Len(BlockGuids(blocks[b])) <= 1

\* two guids share a block that is longer than the maximum
C12_Witness ==
  /\ kpc = "compiled"
  /\ \E b \in 1..Len(blocks) :
       /\ HasBlockShape(blocks[b])
       /\ Len(BlockGuids(blocks[b])) = 2
       /\ Len(blocks[b]) > REGEX_BLOCK_MAXLEN

\* how often x occurs in the sequence xs
Occurrences(xs, x) == Cardinality({i \in 1..Len(xs) : xs[i] = x})

\* C13: a guid whose escaped length alone exceeds REGEX_BLOCK_MAXLEN is emitted
\* alone in a block of its own wherever it stands in the list, once for each
\* time it occurs: createGuidStrings returns, and never drops it.
C13_OversizeGuidAlone ==
  (kpc = "compiled") =>
    \A i \in 1..Len(glist) :
      EscapesOver(glist[i], REGEX_BLOCK_MAXLEN) =>
        IF Len(glist) = 1
          THEN blocks = <<glist[i]>>
          ELSE Occurrences(blocks, <<"/", "^", "(", "(">> \o regexEscape(glist[i])
                                     \o <<")", ")", "$", "/">>)
                 = Occurrences(glist, glist[i])

\* an oversize guid between two others, each of the three in its own block
C13_Witness ==
  /\ kpc = "compiled"
  /\ Len(glist) = 3
  /\ ~EscapesOver(glist[1], REGEX_BLOCK_MAXLEN)
  /\ EscapesOver(glist[2], REGEX_BLOCK_MAXLEN)
  /\ ~EscapesOver(glist[3], REGEX_BLOCK_MAXLEN)
  /\ Len(blocks) = 3
  /\ BlockGuids(blocks[2]) = <<regexEscape(glist[2])>>

EmptyBlock == <<"/", "^", "(", "(", ")", ")", "$", "/">>

\* C22: for two or more guids no string createGuidStrings returns is the
\* block without a guid, /^(())$/, and there are at most as many strings as
\* guids.
C22_NoEmptyBlock ==
  (kpc = "compiled" /\ Len(glist) >= 2) =>
    /\ \A b \in 1..Len(blocks) : blocks[b] # EmptyBlock
    /\ Len(blocks) <= Len(glist)

\* the first of two guids is longer than a block may be: the loop closes the
\* block it has not put anything in yet, and three strings come back for two
\* guids
C22_Witness ==
  /\ kpc = "compiled"
  /\ Len(glist) = 2
  /\ EscapesOver(glist[1], REGEX_BLOCK_MAXLEN)
  /\ Len(blocks) = 3
  /\ blocks[1] = EmptyBlock

-----------------------------------------------------------------------------
(* Properties of expandGuidRegex *)

\* the id lists a string of the shape /^((id)|(id)|...)$/ can be read as, the
\* outer parens being optional on either side: what is left between "/^" and
\* "$/" without them starts with "(", ends with ")", and cut at )|( in between
\* gives non-empty pieces of id characters only
TemplateIds(str) ==
  LET n == Len(str) IN
  { split(SubSeq(str, 4 + open, n - 3 - close)) : <<open, close>> \in
      { oc \in {0, 1} \X {0, 1} :
          /\ n >= 6 + oc[1] + oc[2]
          /\ str[1] = "/" /\ str[2] = "^" /\ str[n - 1] = "$" /\ str[n] = "/"
          /\ oc[1] = 1 => str[3] = "("
          /\ oc[2] = 1 => str[n - 2] = ")"
          /\ str[3 + oc[1]] = "("
          /\ str[n - 2 - oc[2]] = ")"
          /\ LET pieces == split(SubSeq(str, 4 + oc[1], n - 3 - oc[2])) IN
               \A k \in 1..Len(pieces) :
                 /\ pieces[k] # <<>>
                 /\ \A j \in 1..Len(pieces[k]) : pieces[k][j] \in IdChars } }

\* a backslash followed by a character other than . { }
HasOtherEscape(str) ==
  \E i \in 1..(Len(str) - 1) :
    str[i] = "\\" /\ str[i + 1] # "." /\ str[i + 1] # "{" /\ str[i + 1] # "}"

WithoutBackslashes(ids) ==
  [k \in 1..Len(ids) |-> SelectSeq(ids[k], LAMBDA c : c # "\\")]

\* C14: for a string that starts with "/" and either is not of the shape
\* /^((id)|(id)|...)$/ over the id characters or has a backslash followed by a
\* character other than . { }, expandGuidRegex returns the empty list, never a
\* part of the ids.
C14_OtherRegexExpandsToNothing ==
  (/\ kpc = "expandedString"
   /\ expandArg # <<>>
   /\ expandArg[1] = "/"
   /\ (TemplateIds(expandArg) = {} \/ HasOtherEscape(expandArg)))
    => expanded = <<>>

\* a string of the shape, with three ids, one of them with \d
C14_Witness ==
  /\ kpc = "expandedString"
  /\ TemplateIds(expandArg) # {}
  /\ \E ids \in TemplateIds(expandArg) : Len(ids) = 3
  /\ HasOtherEscape(expandArg)
  /\ expanded = <<>>

\* C15: for a string of the shape /^((id)|(id)|...)$/ without other escapes,
\* expandGuidRegex returns the ids without the wrapper and without their
\* backslashes, each distinct one once, in order of first occurrence.
C15_TemplateExpandsToDistinctIds ==
  (/\ kpc = "expandedString"
   /\ TemplateIds(expandArg) # {}
   /\ ~HasOtherEscape(expandArg))
    => \A ids \in TemplateIds(expandArg) :
         expanded = FirstSeen(WithoutBackslashes(ids))

\* three ids, two of them the same once the backslash is gone, the outer
\* parens missing
C15_Witness ==
  /\ kpc = "expandedString"
  /\ Len(expandArg) >= 4
  /\ expandArg[3] = "(" /\ expandArg[4] # "("
  /\ \E ids \in TemplateIds(expandArg) :
       /\ Len(ids) = 3
       /\ ids[1] # ids[3]
       /\ \E k \in 1..3 : \E j \in 1..Len(ids[k]) : ids[k][j] = "\\"
  /\ ~HasOtherEscape(expandArg)
  /\ Len(expanded) = 2

====
